---- MODULE Spec2Model ----
(***************************************************************************)
(* Model of the refresh-session protocol of the authentication service:    *)
(* authenticationService.Login / Refresh / Logout                          *)
(* (src/internal/authentication/service.go), the session store             *)
(* recordRepository (src/unnamed/part_002) and the account store           *)
(* personRepository (src/unnamed/part_005).                                *)
(*                                                                         *)
(* Every database statement is one atomic step.  The service runs on       *)
(* PostgreSQL (src/docker-compose.yml:3, gorm.io/driver/postgres) and      *)
(* Transaction() is called without sql.TxOptions, so a transaction runs at *)
(* the default READ COMMITTED level: the SELECT and the UPDATE of Rotate   *)
(* are two steps, and statements of other requests may commit between      *)
(* them.  RefreshTokenRecord and Person embed gorm.Model, so Delete sets   *)
(* the deleted_at tombstone and every query skips tombstoned rows:         *)
(* `records` holds the rows whose tombstone is not set.  The goroutine     *)
(* with which Login updates last_seen runs beside the requests, one        *)
(* statement of personService.UpdateLastSeen a step.  The handlers of       *)
(* handler.go write the HTTP response of every call that ends.              *)
(*                                                                         *)
(* Spec is the service as a whole.  SpecCollision, FairLastSeen,            *)
(* SpecHandler and SpecCodec run parts of it under conditions Spec leaves   *)
(* out: uuids that repeat, fair scheduling of the goroutines, every outcome *)
(* of the engine at the handlers, and the token codec of package utils on   *)
(* its own inputs.  SpecForgery hands the codec tokens that were not issued *)
(* by it, SpecStore runs the deletes of the session store on every small    *)
(* table, SpecMiddleware sends requests through AuthMiddleware and          *)
(* RoleMiddleware (src/unnamed/part_003), SpecUnique is the token lifecycle *)
(* with uuids that repeat, SpecAccounts is the account service of           *)
(* src/unnamed/part_004 on the persons table, and SpecConfig the start of   *)
(* the process with utils.LoadConfig (src/unnamed/part_001).  SpecSessions  *)
(* begins with a session in the store, SpecProfile runs the updates of an   *)
(* account beside the last-seen goroutine, SpecPasswords sends passwords    *)
(* through the request binding and CheckPassword, and SpecRoles creates and *)
(* updates accounts beside Login, Refresh and Logout.                       *)
(***************************************************************************)
EXTENDS Integers, FiniteSets, Sequences, TLC

VARIABLES
    persons,    \* persons table: id -> row (Email, Password, Role, LastSeen, Deleted)
    tasks,      \* the last-seen goroutines Login has started and that still run
    records,    \* refresh_token_records table: the set of non-tombstoned rows
    nextID,     \* next auto-increment primary key of refresh_token_records
    uuids,      \* number of uuid.NewString() values generated so far
    now,        \* time.Now()
    pc,         \* per request worker: the statement it is about to run
    loc,        \* per request worker: the local variables of the running call
    resp,       \* what the step just taken returned to a caller (NoResp: nothing)
    reply,      \* the HTTP response the handler wrote for it (NoReply: nothing)
    codec,      \* the token codec at work on its own: inputs, token, parsed claims
    ctx,        \* the request on its way through the middleware of a protected route
    cfg,        \* the start of the process: the environment, the configuration loaded
    hist        \* history of the run (what was returned, presented, removed)

vars ==
    <<persons, tasks, records, nextID, uuids, now, pc, loc, resp, reply, codec, ctx, cfg, hist>>

----------------------------------------------------------------------------
\* The size of the model, and the settings of the service.

\* a.refreshTokenTTL and a.accessTokenTTL as main.go sets them, in ticks of the
\* clock of the model.
RefreshTokenTTL == 1
AccessTokenTTL == 1

\* Logins that may succeed in a run.
MaxLogins == 1

\* The request workers: two calls can be in flight at a time.
Procs == {1, 2}

\* The values uuid.NewString() hands out in a run, in this order.
UuidPool == 1 .. 3

\* The clock runs until a session issued at time 0 has expired.
MaxTime == RefreshTokenTTL + 1

\* service.go:95: the passes of the last-seen loop.
MaxAttempts == 3

----------------------------------------------------------------------------
\* Errors of the engine and of the stores.

Nil == "nil"
ErrInvalidCredentials == "invalid username or password"
ErrLoginFailed == "login failed"
ErrInvalidRefreshToken == "invalid refresh token"
ErrRecordNotFoundByGivenToken == "record not found by given token"
ErrCreateFailed == "failed to create refresh token record"
ErrPersonNotFound == "person not found"
ErrUnresponsiveDatabase == "error occurred during writing to records table"
ErrRecordNotFoundByGivenID == "record not found by given id"
ErrRecordNotFoundByGivenPersonID == "no tokens found for given person"
ErrEmailAlreadyExists == "email already exists"
ErrPersonNotCreated == "person not created"
ErrPersonNotUpdated == "person not updated"

\* person.Role
Admin == "admin"
User == "user"

\* The empty string a failed call returns in place of a token.
NoToken == <<>>

----------------------------------------------------------------------------
\* Values.

\* uuid.NewString(): the n-th value generated; values never repeat.
Uuid(n) == <<"uuid", n>>

\* A token no call ever generated.
BogusToken == Uuid(0)

\* hex(sha256(s)): one-way, injective on the modelled values, never a uuid.
Sha256(s) == <<"sha256", s>>

\* A comparison that accepts every password: what Login must not be built on.
CompareAcceptingAll(hashed, password) == TRUE

\* bcrypt.GenerateFromPassword and bcrypt.CompareHashAndPassword.
Bcrypt(password) == <<"bcrypt", password>>
CompareHashAndPassword(hashed, password) == hashed = Bcrypt(password)

\* strconv.Itoa on the ids of the model: the decimal digits, most significant first.
RECURSIVE Itoa(_)
Itoa(n) ==
    IF n < 10 THEN <<n>> ELSE Append(Itoa(n \div 10), n % 10)

\* utils.IssueToken: the signed string, as the claims and the signing key.
IssueToken(subject, role, secret, ttl) ==
    <<"jwt", [Subject |-> subject, Role |-> role, IssuedAt |-> now,
              ExpiresAt |-> now + ttl], secret>>

\* utils.ParseToken: the claims of a token signed with this key that has not
\* expired (jwt/v4 wants the time to be before exp), else an error.
ErrInvalidToken == "invalid token or claims"
NoClaims == [Subject |-> <<>>, Role |-> "", IssuedAt |-> 0, ExpiresAt |-> 0]
ParseToken(tokenString, secret) ==
    IF \/ tokenString = NoToken
       \/ tokenString[3] # secret
       \/ now >= tokenString[2].ExpiresAt
    THEN [err |-> ErrInvalidToken, claims |-> NoClaims]
    ELSE [err |-> Nil, claims |-> tokenString[2]]

JwtSecret == "jwtSecret"

\* The signing secrets the engine holds: authenticationService has this one field.
EngineSecrets == {JwtSecret}

----------------------------------------------------------------------------
\* The token codec with two kinds of token (utils.IssueAccessToken,
\* IssueRefreshToken, ParseAccessToken, ParseRefreshToken) and what it uses of
\* golang-jwt/jwt/v4.  A signed string is its three parts: header, payload and
\* signature.

\* jwt.TimePrecision, one second, in ticks of the clock: where the codec is at
\* work on its own the clock is finer than the dates of a token.
Precision == 2

\* jwt.NewNumericDate: the time truncated to the precision.
NewNumericDate(t) == (t \div Precision) * Precision

\* The empty string of a claim, and the nil of a *NumericDate.
Empty == <<>>
NoDate == -1

\* AccessClaims{Role, RegisteredClaims} and RefreshClaims{RegisteredClaims}, with
\* the registered claims the codec sets.
AccessClaims(role, id, subject, issuedAt, expiresAt) ==
    [Role |-> role, ID |-> id, Subject |-> subject, IssuedAt |-> issuedAt,
     ExpiresAt |-> expiresAt]
RefreshClaims(id, subject, issuedAt, expiresAt) ==
    [ID |-> id, Subject |-> subject, IssuedAt |-> issuedAt, ExpiresAt |-> expiresAt]

\* One member of a JSON object; `omitempty` leaves an empty value out.
Member(name, value, empty, omitempty) ==
    IF omitempty /\ value = empty THEN [x \in {} |-> value] ELSE name :> value

\* json.Marshal of RegisteredClaims: every member is tagged omitempty.
MarshalRegistered(c) ==
    Member("sub", c.Subject, Empty, TRUE) @@ Member("jti", c.ID, Empty, TRUE)
    @@ Member("iat", c.IssuedAt, NoDate, TRUE) @@ Member("exp", c.ExpiresAt, NoDate, TRUE)

\* json.Marshal of AccessClaims: `json:"role"` is always written.
MarshalAccess(c) == Member("role", c.Role, "", FALSE) @@ MarshalRegistered(c)

\* json.Unmarshal: a member that is absent leaves the zero value of the field,
\* a member the struct does not have is passed over.
Get(object, name, zero) == IF name \in DOMAIN object THEN object[name] ELSE zero
UnmarshalAccess(object) ==
    AccessClaims(Get(object, "role", ""), Get(object, "jti", Empty),
                 Get(object, "sub", Empty), Get(object, "iat", NoDate),
                 Get(object, "exp", NoDate))
UnmarshalRefresh(object) ==
    RefreshClaims(Get(object, "jti", Empty), Get(object, "sub", Empty),
                  Get(object, "iat", NoDate), Get(object, "exp", NoDate))

\* SigningMethodHMAC.Sign: the MAC of the signing string under the key.
Hmac(alg, key, signingString) == <<"hmac", alg, key, signingString>>
HmacMethods == {"HS256", "HS384", "HS512"}

\* The signing methods jwt/v4 registers, as far as the model goes: the HMAC
\* family, RSA and "none".
SigningMethods == HmacMethods \cup {"RS256", "none"}

\* SigningMethod.Sign of the method alg: "none" signs with the empty string.
Sign(alg, key, signingString) ==
    IF alg \in HmacMethods THEN Hmac(alg, key, signingString)
    ELSE IF alg = "none" THEN Empty
    ELSE <<"rsa", alg, key, signingString>>

\* jwt.NewWithClaims(jwt.SigningMethodHS256, claims).SignedString(key)
SignedString(payload, key) ==
    LET header == [alg |-> "HS256", typ |-> "JWT"]
    IN <<header, payload, Hmac(header.alg, key, <<header, payload>>)>>

\* A refresh token issued without its session id.
IssueRefreshTokenWithoutID(subject, jti, secret, ttl) ==
    SignedString(MarshalRegistered(RefreshClaims(Empty, subject, NewNumericDate(now),
                                                 NewNumericDate(now + ttl))),
                 secret)

\* docker-compose.yml:102-128
IssueAccessToken(subject, role, secret, ttl) ==
    SignedString(MarshalAccess(AccessClaims(role, Empty, subject, NewNumericDate(now),
                                            NewNumericDate(now + ttl))),
                 secret)
IssueRefreshToken(subject, jti, secret, ttl) ==
    SignedString(MarshalRegistered(RefreshClaims(jti, subject, NewNumericDate(now),
                                                 NewNumericDate(now + ttl))),
                 secret)

\* The errors of jwt.ParseWithClaims.
ErrUnexpectedMethod == "unexpected signing method"
ErrSignatureInvalid == "signature is invalid"
ErrTokenExpired == "token is expired"
ErrTokenUsedBeforeIssued == "token used before issued"

\* A parser whose key function hands the key to whatever method the header
\* names.
ParseErrorTrustingHeader(tokenString, secret) ==
    LET header == tokenString[1]
        payload == tokenString[2]
        exp == Get(payload, "exp", NoDate)
        iat == Get(payload, "iat", NoDate)
    IN IF exp # NoDate /\ ~(now < exp) THEN ErrTokenExpired
       ELSE IF iat # NoDate /\ now < iat THEN ErrTokenUsedBeforeIssued
       ELSE IF tokenString[3] # Sign(header.alg, secret, <<header, payload>>)
       THEN ErrSignatureInvalid
       ELSE Nil

\* jwt.ParseWithClaims with the key function of the codec: the method of the
\* header must be an HMAC, the registered claims must be valid now (exp after
\* now, iat not after now, each only if present) and the signature must be the
\* MAC under the key.
ParseError(tokenString, secret) ==
    LET header == tokenString[1]
        payload == tokenString[2]
        exp == Get(payload, "exp", NoDate)
        iat == Get(payload, "iat", NoDate)
    IN IF header.alg \notin HmacMethods THEN ErrUnexpectedMethod
       ELSE IF exp # NoDate /\ ~(now < exp) THEN ErrTokenExpired
       ELSE IF iat # NoDate /\ now < iat THEN ErrTokenUsedBeforeIssued
       ELSE IF tokenString[3] # Hmac(header.alg, secret, <<header, payload>>)
       THEN ErrSignatureInvalid
       ELSE Nil

NoAccessClaims == AccessClaims("", Empty, Empty, NoDate, NoDate)
NoRefreshClaims == RefreshClaims(Empty, Empty, NoDate, NoDate)

\* docker-compose.yml:130-160
ParseAccessToken(tokenString, secret) ==
    LET err == ParseError(tokenString, secret)
    IN IF err # Nil THEN [err |-> err, claims |-> NoAccessClaims]
       ELSE [err |-> Nil, claims |-> UnmarshalAccess(tokenString[2])]
ParseRefreshToken(tokenString, secret) ==
    LET err == ParseError(tokenString, secret)
    IN IF err # Nil THEN [err |-> err, claims |-> NoRefreshClaims]
       ELSE [err |-> Nil, claims |-> UnmarshalRefresh(tokenString[2])]

Emails == {"a@x.com", "b@x.com", "nobody@x.com"}
Passwords == {"Passw0rd1", "Wr0ngPass1"}
PersonIDs == {1, 2}

----------------------------------------------------------------------------
\* The account store (personRepository).

NoPerson ==
    [ID |-> 0, Email |-> "", Password |-> <<>>, Role |-> "", LastSeen |-> 0,
     Deleted |-> FALSE]

\* personRepository.ReadByEmail: the non-deleted account with this email.
ReadByEmail(email) ==
    LET m == {id \in DOMAIN persons :
                 persons[id].Email = email /\ ~persons[id].Deleted}
    IN IF m = {} THEN [err |-> ErrPersonNotFound, person |-> NoPerson]
       ELSE [err |-> Nil, person |-> persons[CHOOSE id \in m : \A o \in m : id <= o]]

\* personRepository.ReadByID: the non-deleted account with this id.
ReadByID(id) ==
    IF id \in DOMAIN persons /\ ~persons[id].Deleted
    THEN [err |-> Nil, person |-> persons[id]]
    ELSE [err |-> ErrPersonNotFound, person |-> NoPerson]

\* personRepository.Delete: the soft delete sets the tombstone; no row count is checked.
PersonsAfterDelete(id) ==
    [i \in DOMAIN persons |->
        IF i = id THEN [persons[i] EXCEPT !.Deleted = TRUE] ELSE persons[i]]

----------------------------------------------------------------------------
\* The session store (recordRepository).

NoRecord == [ID |-> 0, PersonID |-> 0, RefreshToken |-> <<>>, ExpiresAt |-> 0]

\* JOIN persons ... WHERE refresh_token = token AND persons.deleted_at IS NULL
RowsByToken(token) ==
    {r \in records : r.RefreshToken = token /\ ~persons[r.PersonID].Deleted}

\* recordRepository.ReadByToken
ReadByToken(token) ==
    LET m == RowsByToken(token)
    IN IF m = {} THEN [err |-> ErrRecordNotFoundByGivenToken, rec |-> NoRecord]
       ELSE [err |-> Nil, rec |-> CHOOSE r \in m : \A o \in m : r.ID <= o.ID]

\* An insert that passes over a conflict on the unique index (ON CONFLICT DO
\* NOTHING) and reports success.
CreateIgnoringConflict(rec) ==
    [err |-> Nil,
     rows |-> IF \E r \in records : r.RefreshToken = rec.RefreshToken
              THEN records ELSE records \cup {rec}]

\* recordRepository.Create: the insert fails on the unique index of refresh_token.
Create(rec) ==
    IF \E r \in records : r.RefreshToken = rec.RefreshToken
    THEN [err |-> ErrCreateFailed, rows |-> records]
    ELSE [err |-> Nil, rows |-> records \cup {rec}]

\* A DeleteByToken that removes every session of the account of the token.
DeleteByTokenWithSiblings(token) ==
    LET m == RowsByToken(token)
    IN IF m = {} THEN [err |-> ErrRecordNotFoundByGivenToken, rows |-> records]
       ELSE [err |-> Nil,
             rows |-> {r \in records : \A q \in m : r.PersonID # q.PersonID}]

\* A delete that does not look at RowsAffected: deleting nothing is a success.
DeleteByTokenUnchecked(token) ==
    [err |-> Nil, rows |-> records \ RowsByToken(token)]

\* recordRepository.DeleteByToken: RowsAffected = 0 is reported as not found.
DeleteByToken(token) ==
    LET m == RowsByToken(token)
    IN IF m = {} THEN [err |-> ErrRecordNotFoundByGivenToken, rows |-> records]
       ELSE [err |-> Nil, rows |-> records \ m]

\* JOIN persons ... WHERE refresh_token_records.id = id AND persons.deleted_at IS NULL
RowsByID(id) ==
    {r \in records : r.ID = id /\ ~persons[r.PersonID].Deleted}

\* recordRepository.Delete
Delete(id) ==
    LET m == RowsByID(id)
    IN IF m = {} THEN [err |-> ErrRecordNotFoundByGivenID, rows |-> records]
       ELSE [err |-> Nil, rows |-> records \ m]

\* JOIN persons ... WHERE person_id = personID AND persons.deleted_at IS NULL
RowsByPersonID(personID) ==
    {r \in records : r.PersonID = personID /\ ~persons[r.PersonID].Deleted}

\* A bulk delete without the join: it also takes the rows of a deleted owner.
DeleteByPersonIDWithoutJoin(personID) ==
    LET m == {r \in records : r.PersonID = personID}
    IN IF m = {} THEN [err |-> ErrRecordNotFoundByGivenPersonID, rows |-> records]
       ELSE [err |-> Nil, rows |-> records \ m]

\* recordRepository.DeleteByPersonID
DeleteByPersonID(personID) ==
    LET m == RowsByPersonID(personID)
    IN IF m = {} THEN [err |-> ErrRecordNotFoundByGivenPersonID, rows |-> records]
       ELSE [err |-> Nil, rows |-> records \ m]

\* A Save that inserts the rotated row and leaves the old one in place.
SaveRowsKeepingOld(rec) == records \cup {rec}

\* recordRepository.Rotate, tx.Save(&rec): the UPDATE by primary key of the row
\* read by the SELECT of the same transaction, all columns written.
SaveRows(rec) ==
    {r \in records : r.ID # rec.ID} \cup {rec}

----------------------------------------------------------------------------
\* The state of the request workers and the history of the run.

Tokens == {Uuid(n) : n \in {0} \cup UuidPool}

NoLoc ==
    [op |-> "none", email |-> "", tok |-> NoToken, rec |-> NoRecord,
     user |-> NoPerson, access |-> NoToken, rawNew |-> NoToken, newExpiry |-> 0]

NoResp ==
    [op |-> "none", arg |-> NoToken, err |-> Nil, access |-> NoToken,
     refresh |-> NoToken]

\* What a finished call hands back to its caller, with the call it answers.
Return(op, arg, err, access, refresh) ==
    [op |-> op, arg |-> arg, err |-> err, access |-> access, refresh |-> refresh]

\* The accounts the run starts with: registered by CreatePerson, or given the
\* admin role by the operator of the database.
----------------------------------------------------------------------------
\* The transport layer: AuthHandler.Login, Refresh and Logout (handler.go), from
\* the return of the engine on.  The requests of the model pass the binding of
\* the payload (a well-formed email, an alphanumeric password of eight characters
\* or more, a token that is not empty).

StatusOK == 200
StatusNoContent == 204
StatusUnauthorized == 401
StatusInternalServerError == 500

NoReply == [status |-> 0, error |-> "", access |-> NoToken, refresh |-> NoToken]

\* c.JSON(status, gin.H{"error": message})
ErrorJSON(status, message) ==
    [status |-> status, error |-> message, access |-> NoToken, refresh |-> NoToken]

\* c.JSON(http.StatusOK, TokenResponse{...})
TokenJSON(access, refresh) ==
    [status |-> StatusOK, error |-> "", access |-> access, refresh |-> refresh]

\* A handler that puts the error of the engine into its response.
HandleLoginEchoing(err, access, refresh) ==
    IF err = Nil THEN TokenJSON(access, refresh)
    ELSE IF err = ErrInvalidCredentials
    THEN ErrorJSON(StatusUnauthorized, "invalid credentials")
    ELSE ErrorJSON(StatusInternalServerError, err)

\* handler.go:68-77
HandleLogin(err, access, refresh) ==
    IF err = Nil THEN TokenJSON(access, refresh)
    ELSE IF err = ErrInvalidCredentials
    THEN ErrorJSON(StatusUnauthorized, "invalid credentials")
    ELSE ErrorJSON(StatusInternalServerError, "could not login")

\* handler.go:99-108
HandleRefresh(err, access, refresh) ==
    IF err = Nil THEN TokenJSON(access, refresh)
    ELSE IF err = ErrInvalidRefreshToken
    THEN ErrorJSON(StatusUnauthorized, "invalid or expired refresh token")
    ELSE ErrorJSON(StatusInternalServerError, "could not refresh token")

\* handler.go:130-139
HandleLogout(err) ==
    IF err = Nil THEN [NoReply EXCEPT !.status = StatusNoContent]
    ELSE IF err = ErrInvalidRefreshToken
    THEN ErrorJSON(StatusUnauthorized, "invalid refresh token")
    ELSE ErrorJSON(StatusInternalServerError, "could not logout")

\* The handler of the route on which the call r.op was made.
Handler(r) ==
    CASE r.op = "Login" -> HandleLogin(r.err, r.access, r.refresh)
      [] r.op = "Refresh" -> HandleRefresh(r.err, r.access, r.refresh)
      [] r.op = "Logout" -> HandleLogout(r.err)
      [] OTHER -> NoReply

----------------------------------------------------------------------------
\* Package strconv on strings kept as the values of their characters (a letter
\* has a value of 10 or more, as in strconv; the sign '-' is Minus).

\* strconv.ParseUint(s, 10, 64): the empty string and a character that is no
\* digit of the base are syntax errors.
Base == 10
Minus == -1
ErrSyntax == "invalid syntax"
RECURSIVE Digits(_)
Digits(s) == IF s = <<>> THEN 0 ELSE Digits(SubSeq(s, 1, Len(s) - 1)) * Base + s[Len(s)]
ParseUint(s) ==
    IF s = <<>> \/ \E i \in 1 .. Len(s) : s[i] \notin 0 .. Base - 1
    THEN [err |-> ErrSyntax, n |-> 0]
    ELSE [err |-> Nil, n |-> Digits(s)]

\* strconv.Atoi: a decimal number with an optional sign.
Atoi(s) ==
    IF s # <<>> /\ s[1] = Minus
    THEN [ParseUint(Tail(s)) EXCEPT !.n = 0 - @]
    ELSE ParseUint(s)

----------------------------------------------------------------------------
\* utils.LoadConfig (part_001) and the start of main (main.go:31-35, 123-131).
\* A Go string is a sequence of bytes and len() counts them.  Of the Config only
\* the TokenConfig is kept.

MinSecretLength == 32
DefaultExpiry == 24

\* The longest secret an environment of the runs holds.
MaxSecret == 33

String(n) == [i \in 1 .. n |-> "s"]

\* What os.Getenv returns once godotenv.Load has read the file (an unset
\* variable is the empty string); `file`: the .env file can be read.
Environments ==
    [file : BOOLEAN,
     ACCESS_TOKEN_SECRET :
         {String(n) : n \in {0} \cup (MinSecretLength - 1 .. MaxSecret)},
     REFRESH_TOKEN_SECRET :
         {String(n) : n \in {0} \cup (MinSecretLength - 1 .. MaxSecret)},
     REFRESH_TOKEN_EXPIRY : {<<>>, <<1>>, <<Minus, 1>>, <<Base>>}]

NoTokenConfig ==
    [AccessTokenSecret |-> <<>>, RefreshTokenSecret |-> <<>>,
     RefreshTokenExpiry |-> 0, AccessTokenExpiry |-> 0]

\* part_001:72-85: the expiry, or the default when the variable does not parse.
Expiry(s) == IF Atoi(s).err # Nil THEN DefaultExpiry ELSE Atoi(s).n

\* part_001:69-86.  Both expiries are read from REFRESH_TOKEN_EXPIRY.
TokenCfg(env) ==
    [AccessTokenSecret |-> env.ACCESS_TOKEN_SECRET,
     RefreshTokenSecret |-> env.REFRESH_TOKEN_SECRET,
     RefreshTokenExpiry |-> Expiry(env.REFRESH_TOKEN_EXPIRY),
     AccessTokenExpiry |-> Expiry(env.REFRESH_TOKEN_EXPIRY)]

\* A LoadConfig that checks the length of the access secret only.
LoadConfigCheckingAccessOnly(env) ==
    IF ~env.file THEN [at |-> "failed", Token |-> NoTokenConfig]
    ELSE IF Len(TokenCfg(env).AccessTokenSecret) < MinSecretLength
    THEN [at |-> "panicked", Token |-> NoTokenConfig]
    ELSE [at |-> "loaded", Token |-> TokenCfg(env)]

\* LoadConfig, part_001:51-97: the error of godotenv.Load is returned (and main
\* panics on it, main.go:33-35), a short secret is a panic, and otherwise the
\* configuration is returned.
LoadConfig(env) ==
    IF ~env.file THEN [at |-> "failed", Token |-> NoTokenConfig]
    ELSE IF Len(TokenCfg(env).AccessTokenSecret) < MinSecretLength
    THEN [at |-> "panicked", Token |-> NoTokenConfig]
    ELSE IF Len(TokenCfg(env).RefreshTokenSecret) < MinSecretLength
    THEN [at |-> "panicked", Token |-> NoTokenConfig]
    ELSE [at |-> "loaded", Token |-> TokenCfg(env)]

\* The process before main has run.
Started(env) == [at |-> "start", env |-> env, Token |-> NoTokenConfig]

\* The process of the other runs: it serves, on secrets of the least length.
Serving ==
    LET env == [file |-> TRUE,
                ACCESS_TOKEN_SECRET |-> String(MinSecretLength),
                REFRESH_TOKEN_SECRET |-> String(MinSecretLength),
                REFRESH_TOKEN_EXPIRY |-> <<>>]
    IN [at |-> "serving", env |-> env, Token |-> LoadConfig(env).Token]

\* The codec is not at work.
NoCodec == [at |-> "none"]

\* No request is on its way through the middleware; `held` is the access token
\* the client keeps.
NoCtx ==
    [at |-> "idle", route |-> <<>>, chain |-> <<>>, header |-> <<>>, userID |-> 0,
     exists |-> FALSE,
     user |-> NoPerson, status |-> 0, error |-> "", ran |-> FALSE, held |-> NoToken]

InitPersons ==
    [i \in PersonIDs |->
        [ID |-> i,
         Email |-> IF i = 1 THEN "a@x.com" ELSE "b@x.com",
         Password |-> Bcrypt("Passw0rd1"),
         Role |-> IF i = 1 THEN Admin ELSE User,
         LastSeen |-> 0,
         Deleted |-> FALSE]]

InitHist ==
    [returned |-> {},                   \* refresh tokens handed to a client
     used |-> {},                       \* tokens a call of Refresh or Logout was begun with
     rotated |-> {},                    \* tokens t of which a call Refresh(t) returned success
     loggedOut |-> {},                  \* tokens t of which a call Logout(t) returned success
     clean |-> {},                      \* tokens of a chain Login, Refresh, Refresh, ... in
                                        \* which no token was presented a second time
     root |-> [t \in Tokens |-> NoToken], \* the token of the Login that began t's chain
     owner |-> [t \in Tokens |-> 0],    \* the account of that Login
     logins |-> 0,                      \* Logins that returned success
     removed |-> 0,                     \* rows removed by DeleteByToken
     deleted |-> {},                    \* accounts of which a DeletePerson has completed
     late |-> {}]                       \* workers whose Refresh in flight was begun with a
                                        \* token whose session had expired before

\* The stored session of the token tok is past its expiry.
Outlived(tok) ==
    \E r \in records : r.RefreshToken = Sha256(tok) /\ now > r.ExpiresAt

\* The history after a call of Refresh or Logout was begun with tok.
Presented(h, tok) ==
    IF tok = BogusToken THEN h
    ELSE [h EXCEPT !.used = @ \cup {tok},
                   !.clean = IF tok \in h.used THEN @ \ {tok} ELSE @]

Init ==
    /\ persons = InitPersons
    /\ tasks = {}
    /\ records = {}
    /\ nextID = 1
    /\ uuids = 0
    /\ now = 0
    /\ pc = [p \in Procs |-> "idle"]
    /\ loc = [p \in Procs |-> NoLoc]
    /\ resp = NoResp
    /\ reply = NoReply
    /\ codec = NoCodec
    /\ ctx = NoCtx
    /\ cfg = Serving
    /\ hist = InitHist

\* A request is handed to the first free worker.
Free(p) ==
    /\ pc[p] = "idle"
    /\ \A q \in Procs : q < p => pc[q] # "idle"

\* The calls in flight that have yet to draw their uuid.
Drawing == {q \in Procs : pc[q] \in {"LoginCreate", "RefreshCheck", "RotateRead"}}

\* A call that will draw a uuid is begun only while the model has one left for it.
UuidLeft == uuids + Cardinality(Drawing) < Cardinality(UuidPool)

\* The same for the Logins of the model.
LoginLeft ==
    hist.logins + Cardinality({q \in Procs : pc[q] = "LoginCreate"}) < MaxLogins

\* The call of worker p ends: its locals are dropped, r is returned and the
\* handler writes the response.
Finish(p, r) ==
    /\ resp = NoResp
    /\ pc' = [pc EXCEPT ![p] = "idle"]
    /\ loc' = [loc EXCEPT ![p] = NoLoc]
    /\ resp' = r
    /\ reply' = Handler(r)
    /\ UNCHANGED <<codec, ctx, cfg>>

\* The call of worker p goes on at statement `at` with the locals l.
Goto(p, at, l) ==
    /\ resp = NoResp
    /\ pc' = [pc EXCEPT ![p] = at]
    /\ loc' = [loc EXCEPT ![p] = l]
    /\ resp' = NoResp
    /\ UNCHANGED <<reply, codec, ctx, cfg>>

----------------------------------------------------------------------------
\* authenticationService.Login

\* An access token that carries the default role instead of the account's.
AccessForDefaultRole(user) ==
    IssueToken(Itoa(user.ID), User, JwtSecret, AccessTokenTTL)

\* service.go:69-74 and 152-157: the access token issued for the account user.
AccessFor(user) ==
    IssueToken(Itoa(user.ID), user.Role, JwtSecret, AccessTokenTTL)

\* service.go:55-78: ReadPersonByEmail, the password comparison, IssueToken.
LoginRead(p, email, password) ==
    /\ Free(p)
    /\ LET found == ReadByEmail(email)
           user == found.person
       IN IF found.err # Nil
          THEN Finish(p, Return("Login", email, ErrInvalidCredentials, NoToken, NoToken))
          ELSE IF ~CompareHashAndPassword(user.Password, password)
          THEN Finish(p, Return("Login", email, ErrInvalidCredentials, NoToken, NoToken))
          ELSE /\ UuidLeft /\ LoginLeft
               /\ Goto(p, "LoginCreate",
                       [NoLoc EXCEPT !.op = "Login", !.email = email, !.user = user,
                           !.access = AccessFor(user)])
    /\ UNCHANGED <<persons, tasks, records, nextID, uuids, now, hist>>

\* A row that keeps the secret itself instead of its hash.
LoginRecordRaw(user, rawRefresh) ==
    [ID |-> nextID, PersonID |-> user.ID, RefreshToken |-> rawRefresh,
     ExpiresAt |-> now + RefreshTokenTTL]

\* service.go:83-87: the row Login persists for the secret rawRefresh.
LoginRecord(user, rawRefresh) ==
    [ID |-> nextID, PersonID |-> user.ID, RefreshToken |-> Sha256(rawRefresh),
     ExpiresAt |-> now + RefreshTokenTTL]

\* service.go:93-103: the goroutine with which a Login updates last_seen.  It
\* has its own context and outlives the request; n tells the goroutines apart,
\* i is the loop counter, person the account UpdateLastSeen holds between its
\* read and its Save.
LastSeenTask(n, userID) ==
    [n |-> n, userID |-> userID, i |-> 0, at |-> "read", person |-> NoPerson]

\* A Login that makes the last-seen update itself before it returns, and
\* returns the error of the update.
LoginAwaitingLastSeen(p, rawRefresh) ==
    /\ pc[p] = "LoginCreate"
    /\ LET created == Create(LoginRecord(loc[p].user, rawRefresh))
           seen == ReadByID(loc[p].user.ID)
       IN /\ uuids' = uuids + 1
          /\ IF created.err # Nil
             THEN /\ Finish(p, Return("Login", loc[p].email, created.err, NoToken, NoToken))
                  /\ UNCHANGED <<persons, records, nextID, hist>>
             ELSE /\ records' = created.rows
                  /\ nextID' = nextID + 1
                  /\ IF seen.err # Nil
                     THEN /\ Finish(p, Return("Login", loc[p].email, seen.err,
                                              NoToken, NoToken))
                          /\ UNCHANGED <<persons, hist>>
                     ELSE /\ persons' = [persons EXCEPT
                                 ![seen.person.ID] = [seen.person EXCEPT !.LastSeen = now]]
                          /\ Finish(p, Return("Login", loc[p].email, Nil,
                                              loc[p].access, rawRefresh))
                          /\ hist' = [hist EXCEPT
                                 !.returned = @ \cup {rawRefresh},
                                 !.clean = @ \cup {rawRefresh},
                                 !.root[rawRefresh] = rawRefresh,
                                 !.owner[rawRefresh] = loc[p].user.ID,
                                 !.logins = @ + 1]
    /\ UNCHANGED <<tasks, now>>

\* service.go:80-105 with rawRefresh the value uuid.NewString() returned: its
\* row, the goroutine, the return of both tokens.
LoginCreateWith(p, rawRefresh) ==
    /\ pc[p] = "LoginCreate"
    /\ LET created == Create(LoginRecord(loc[p].user, rawRefresh))
       IN /\ uuids' = uuids + 1
          /\ IF created.err # Nil
             THEN /\ Finish(p, Return("Login", loc[p].email, created.err, NoToken, NoToken))
                  /\ UNCHANGED <<records, nextID, tasks, hist>>
             ELSE /\ records' = created.rows
                  /\ nextID' = nextID + 1
                  /\ tasks' = tasks \cup {LastSeenTask(nextID, loc[p].user.ID)}
                  /\ Finish(p, Return("Login", loc[p].email, Nil, loc[p].access, rawRefresh))
                  /\ hist' = [hist EXCEPT
                         !.returned = @ \cup {rawRefresh},
                         !.clean = @ \cup {rawRefresh},
                         !.root[rawRefresh] = rawRefresh,
                         !.owner[rawRefresh] = loc[p].user.ID,
                         !.logins = @ + 1]
    /\ UNCHANGED <<persons, now>>

\* service.go:80-105, the uuid being one never generated before.
LoginCreate(p) == LoginCreateWith(p, Uuid(uuids + 1))

\* service.go:80-105, the uuid being any value, one generated before included:
\* uuid.NewString() draws at random and keeps no record of what it returned.
LoginCreateColliding(p) == \E n \in UuidPool : LoginCreateWith(p, Uuid(n))

----------------------------------------------------------------------------
\* authenticationService.Refresh

\* service.go:127-138: the lookup of the presented token's hash.
RefreshRead(p, tok) ==
    /\ Free(p)
    /\ LET found == ReadByToken(Sha256(tok))
       IN IF found.err # Nil
          THEN Finish(p, Return("Refresh", tok, ErrInvalidRefreshToken, NoToken, NoToken))
          ELSE /\ UuidLeft
               /\ Goto(p, "RefreshCheck",
                       [NoLoc EXCEPT !.op = "Refresh", !.tok = tok, !.rec = found.rec])
    /\ hist' = [Presented(hist, tok) EXCEPT
           !.late = IF ReadByToken(Sha256(tok)).err = Nil /\ Outlived(tok)
                    THEN @ \cup {p} ELSE @]
    /\ UNCHANGED <<persons, tasks, records, nextID, uuids, now>>

\* service.go:140-161: the expiry check with its delete, else ReadPersonByID
\* and IssueToken.
RefreshCheck(p) ==
    /\ pc[p] = "RefreshCheck"
    /\ IF now > loc[p].rec.ExpiresAt
       THEN /\ records' = DeleteByToken(Sha256(loc[p].tok)).rows
            /\ hist' = [hist EXCEPT !.removed = @ + Cardinality(records \ records'),
                                    !.late = @ \ {p}]
            /\ Finish(p, Return("Refresh", loc[p].tok, ErrInvalidRefreshToken,
                                NoToken, NoToken))
       ELSE LET found == ReadByID(loc[p].rec.PersonID)
                user == found.person
            IN /\ IF found.err # Nil
                  THEN Finish(p, Return("Refresh", loc[p].tok, ErrLoginFailed,
                                        NoToken, NoToken))
                  ELSE Goto(p, "RotateRead",
                            [loc[p] EXCEPT !.user = user,
                                !.access = AccessFor(user)])
               /\ UNCHANGED <<records, hist>>
    /\ UNCHANGED <<persons, tasks, nextID, uuids, now>>

\* service.go:163-168 and Rotate, part_002:56-68, with rawNew the value
\* uuid.NewString() returned: the new secret and expiry, then the SELECT of the
\* transaction by the old hash.
RotateReadWith(p, rawNew) ==
    /\ pc[p] = "RotateRead"
    /\ LET found == ReadByToken(Sha256(loc[p].tok))
       IN /\ uuids' = uuids + 1
          /\ IF found.err # Nil
             THEN Finish(p, Return("Refresh", loc[p].tok, ErrLoginFailed,
                                   NoToken, NoToken))
             ELSE Goto(p, "RotateSave",
                       [loc[p] EXCEPT !.rec = found.rec, !.rawNew = rawNew,
                                      !.newExpiry = now + RefreshTokenTTL])
    /\ UNCHANGED <<persons, tasks, records, nextID, now, hist>>

\* The same, the uuid being one never generated before.
RotateRead(p) == RotateReadWith(p, Uuid(uuids + 1))

\* The same, the uuid being any value, one generated before included.
RotateReadColliding(p) == \E n \in UuidPool : RotateReadWith(p, Uuid(n))

\* part_002:70-71: the row as Rotate writes it.
RotatedRecord(rec, newToken, newExpiry) ==
    [rec EXCEPT !.RefreshToken = newToken, !.ExpiresAt = newExpiry]

\* A Save on a table without the unique index of refresh_token.
SaveOutcomesWithoutIndex(rec) ==
    IF \E r \in records : r.ID = rec.ID THEN {"update"} ELSE {"upsert", "error"}

\* The outcomes of tx.Save(&rec).  The statement fails on the unique index of
\* refresh_token (model.go:12) when another row holds the new hash.  When the
\* UPDATE by primary key matches no row (the row was tombstoned since the
\* SELECT), gorm inserts the record, which either overwrites the tombstoned row
\* (ON CONFLICT DO UPDATE) or fails on the primary key, depending on the gorm
\* version.
SaveOutcomes(rec) ==
    IF \E r \in records : r.ID # rec.ID /\ r.RefreshToken = rec.RefreshToken
    THEN {"error"}
    ELSE IF \E r \in records : r.ID = rec.ID THEN {"update"}
    ELSE {"upsert", "error"}

\* part_002:70-75 and service.go:168-172: the UPDATE of the transaction, the
\* commit, the return of both tokens.
RotateSave(p) ==
    /\ pc[p] = "RotateSave"
    /\ LET rec == RotatedRecord(loc[p].rec, Sha256(loc[p].rawNew), loc[p].newExpiry)
       IN \E outcome \in SaveOutcomes(rec) :
            IF outcome = "error"
            THEN /\ Finish(p, Return("Refresh", loc[p].tok, ErrLoginFailed,
                                     NoToken, NoToken))
                 /\ UNCHANGED <<records, hist>>
            ELSE /\ records' = SaveRows(rec)
                 /\ Finish(p, Return("Refresh", loc[p].tok, Nil, loc[p].access,
                                     loc[p].rawNew))
                 /\ hist' = [hist EXCEPT
                        !.returned = @ \cup {loc[p].rawNew},
                        !.rotated = @ \cup {loc[p].tok},
                        !.clean = IF loc[p].tok \in @ THEN @ \cup {loc[p].rawNew} ELSE @,
                        !.root[loc[p].rawNew] = hist.root[loc[p].tok],
                        !.owner[loc[p].rawNew] = hist.owner[loc[p].tok]]
    /\ UNCHANGED <<persons, tasks, nextID, uuids, now>>

----------------------------------------------------------------------------
\* authenticationService.Logout, service.go:108-121.

Logout(p, tok) ==
    /\ Free(p)
    /\ LET deleted == DeleteByToken(Sha256(tok))
       IN /\ records' = deleted.rows
          /\ Finish(p, Return("Logout", tok,
                              IF deleted.err = ErrRecordNotFoundByGivenToken
                              THEN ErrInvalidRefreshToken ELSE deleted.err,
                              NoToken, NoToken))
          /\ hist' = [Presented(hist, tok) EXCEPT
                 !.loggedOut = IF deleted.err = Nil THEN @ \cup {tok} ELSE @,
                 !.removed = @ + Cardinality(records \ deleted.rows)]
    /\ UNCHANGED <<persons, tasks, nextID, uuids, now>>

----------------------------------------------------------------------------
\* The last-seen goroutine: personService.UpdateLastSeen in a loop of three.

\* A loop that tries again after every failure and counts no attempt.
AfterFailureRetrying(t) ==
    (tasks \ {t}) \cup {[t EXCEPT !.at = "read", !.person = NoPerson]}

\* service.go:95-102: the attempt of task t failed, with err # nil: the loop
\* goes on after its sleep, or ends with its third pass.
AfterFailure(t) ==
    IF t.i + 1 < MaxAttempts
    THEN (tasks \ {t}) \cup {[t EXCEPT !.i = @ + 1, !.at = "read", !.person = NoPerson]}
    ELSE tasks \ {t}

\* part_004:450-457: ReadPersonByID, then the new LastSeen in the copy read.
LastSeenRead(t) ==
    /\ resp = NoResp
    /\ t.at = "read"
    /\ LET found == ReadByID(t.userID)
       IN tasks' = IF found.err # Nil
                   THEN AfterFailure(t)
                   ELSE (tasks \ {t}) \cup
                        {[t EXCEPT !.at = "save",
                                   !.person = [found.person EXCEPT !.LastSeen = now]]}
    /\ resp' = NoResp
    /\ UNCHANGED <<persons, records, nextID, uuids, now, pc, loc, reply, codec, ctx, cfg, hist>>

\* personRepository.Update, db.Save(person): every column of the row is written
\* from the struct, the tombstone included.
SavePerson(person) == [persons EXCEPT ![person.ID] = person]

\* The outcomes of db.Save(person): as for the Save of Rotate, when the account
\* was soft-deleted since it was read.  The statement fails on the unique index
\* of email (part_005:35) when the copy carries an email that another row has
\* taken since.
UpdateOutcomes(person) ==
    IF \E i \in DOMAIN persons : i # person.ID /\ persons[i].Email = person.Email
    THEN {"error"}
    ELSE IF ~persons[person.ID].Deleted THEN {"update"} ELSE {"upsert", "error"}

\* part_004:458-462 and part_005:140-151: the Save of the copy; the goroutine ends
\* with the first attempt that returns nil.
LastSeenSave(t) ==
    /\ resp = NoResp
    /\ t.at = "save"
    /\ \E outcome \in UpdateOutcomes(t.person) :
          IF outcome = "error"
          THEN tasks' = AfterFailure(t) /\ UNCHANGED persons
          ELSE tasks' = tasks \ {t} /\ persons' = SavePerson(t.person)
    /\ resp' = NoResp
    /\ UNCHANGED <<records, nextID, uuids, now, pc, loc, reply, codec, ctx, cfg, hist>>

----------------------------------------------------------------------------
\* personService.DeletePerson, part_004:466-472.

DeletePerson(id) ==
    /\ resp = NoResp
    /\ persons' = PersonsAfterDelete(id)
    /\ hist' = [hist EXCEPT !.deleted = @ \cup {id}]
    /\ resp' = NoResp
    /\ UNCHANGED <<tasks, records, nextID, uuids, now, pc, loc, reply, codec, ctx, cfg>>

\* Time passes.
Tick ==
    /\ resp = NoResp
    /\ now < MaxTime
    /\ now' = now + 1
    /\ resp' = NoResp
    /\ UNCHANGED <<persons, tasks, records, nextID, uuids, pc, loc, reply, codec, ctx, cfg, hist>>

\* The caller takes the response.  No step reads resp, so letting the response
\* leave before the next step takes away no behaviour of the service.
Deliver ==
    /\ resp # NoResp
    /\ resp' = NoResp
    /\ reply' = NoReply
    /\ UNCHANGED <<persons, tasks, records, nextID, uuids, now, pc, loc, codec, ctx, cfg, hist>>

----------------------------------------------------------------------------
\* The tokens a client can present: the ones handed out, and one never issued.
Presentable == hist.returned \cup {BogusToken}

Next ==
    \/ \E p \in Procs, email \in Emails, password \in Passwords :
           LoginRead(p, email, password)
    \/ \E p \in Procs : LoginCreate(p)
    \/ \E p \in Procs, tok \in Presentable : RefreshRead(p, tok)
    \/ \E p \in Procs : RefreshCheck(p)
    \/ \E p \in Procs : RotateRead(p)
    \/ \E p \in Procs : RotateSave(p)
    \/ \E p \in Procs, tok \in Presentable : Logout(p, tok)
    \/ \E t \in tasks : LastSeenRead(t)
    \/ \E t \in tasks : LastSeenSave(t)
    \/ \E id \in PersonIDs : DeletePerson(id)
    \/ Tick
    \/ Deliver

Spec == Init /\ [][Next]_vars

----------------------------------------------------------------------------
\* Login, its last-seen goroutines and the account store they write, without
\* the calls that work on session rows only.

NextLastSeen ==
    \/ \E p \in Procs, email \in Emails, password \in Passwords :
           LoginRead(p, email, password)
    \/ \E p \in Procs : LoginCreate(p)
    \/ \E t \in tasks : LastSeenRead(t)
    \/ \E t \in tasks : LastSeenSave(t)
    \/ \E id \in PersonIDs : DeletePerson(id)
    \/ Tick
    \/ Deliver

\* The Go scheduler runs every goroutine that can run, time.Sleep returns and
\* the database answers: a step of a last-seen goroutine that is possible again
\* and again is taken, and a response is written.
FairLastSeen ==
    /\ Init /\ [][NextLastSeen]_vars
    /\ \A n \in 1 .. MaxLogins :
          /\ SF_vars(\E t \in tasks : t.n = n /\ LastSeenRead(t))
          /\ SF_vars(\E t \in tasks : t.n = n /\ LastSeenSave(t))
    /\ WF_vars(Deliver)

----------------------------------------------------------------------------
\* The handlers on their own, given every outcome the engine has: those the
\* runs above produce, and those of a store that fails (errors of the database
\* reach the handlers as ErrLoginFailed, as the wrapped error of Create and as
\* ErrUnresponsiveDatabase).

LoginErrors == {ErrInvalidCredentials, ErrLoginFailed, ErrCreateFailed}
RefreshErrors == {ErrInvalidRefreshToken, ErrLoginFailed}
LogoutErrors == {ErrInvalidRefreshToken, ErrUnresponsiveDatabase}

\* What Login, Refresh and Logout can return at this time.
Outcomes ==
    {Return("Login", persons[id].Email, Nil, AccessFor(persons[id]), Uuid(n)) :
        id \in PersonIDs, n \in UuidPool}
    \cup {Return("Login", email, err, NoToken, NoToken) :
             email \in Emails, err \in LoginErrors}
    \cup UNION {{Return("Refresh", Uuid(m), Nil, AccessFor(persons[id]), Uuid(n)) :
                    id \in PersonIDs, n \in UuidPool \ {m}} : m \in UuidPool}
    \cup {Return("Refresh", tok, err, NoToken, NoToken) :
             tok \in Tokens, err \in RefreshErrors}
    \cup {Return("Logout", tok, err, NoToken, NoToken) :
             tok \in Tokens, err \in {Nil} \cup LogoutErrors}

\* The engine returns r to the handler of its route, which writes the response.
Respond(r) ==
    /\ resp = NoResp
    /\ resp' = r
    /\ reply' = Handler(r)
    /\ UNCHANGED <<persons, tasks, records, nextID, uuids, now, pc, loc, codec, ctx, cfg, hist>>

NextHandler ==
    \/ \E r \in Outcomes : Respond(r)
    \/ Tick
    \/ Deliver

SpecHandler == Init /\ [][NextHandler]_vars

----------------------------------------------------------------------------
\* The codec on its own: a token is issued from inputs of every kind, time
\* passes, and the token is parsed under a key.

\* The longest TTL a token is issued with, in ticks.
MaxTTL == 3

Subjects == {Itoa(1), Itoa(12), Empty}
Roles == {Admin, User, ""}
SessionIDs == {Uuid(1), Uuid(2), Empty}
Secrets == {"accessTokenSecret", "refreshTokenSecret", ""}

Issued(kind, subject, role, jti, secret, ttl, token) ==
    [at |-> "issued", kind |-> kind, subject |-> subject, role |-> role,
     jti |-> jti, secret |-> secret, ttl |-> ttl, issuedAt |-> now,
     expiresAt |-> NewNumericDate(now + ttl), token |-> token, key |-> "", parsedAt |-> 0, err |-> Nil, claims |-> Empty]

IssueAccess(subject, role, secret, ttl) ==
    /\ codec = NoCodec
    /\ codec' = Issued("access", subject, role, Empty, secret, ttl,
                       IssueAccessToken(subject, role, secret, ttl))
    /\ UNCHANGED <<persons, tasks, records, nextID, uuids, now, pc, loc, resp, reply, ctx, cfg,
                   hist>>

IssueRefresh(subject, jti, secret, ttl) ==
    /\ codec = NoCodec
    /\ codec' = Issued("refresh", subject, "", jti, secret, ttl,
                       IssueRefreshToken(subject, jti, secret, ttl))
    /\ UNCHANGED <<persons, tasks, records, nextID, uuids, now, pc, loc, resp, reply, ctx, cfg,
                   hist>>

\* The token is parsed by the function of its kind, under the key `secret`.
Parse(secret) ==
    /\ codec.at = "issued"
    /\ LET parsed == IF codec.kind = "access"
                     THEN ParseAccessToken(codec.token, secret)
                     ELSE ParseRefreshToken(codec.token, secret)
       IN codec' = [codec EXCEPT !.at = "parsed", !.key = secret, !.parsedAt = now,
                                 !.err = parsed.err, !.claims = parsed.claims]
    /\ UNCHANGED <<persons, tasks, records, nextID, uuids, now, pc, loc, resp, reply, ctx, cfg,
                   hist>>

NextCodec ==
    \/ \E subject \in Subjects, role \in Roles, secret \in Secrets, ttl \in 1 .. MaxTTL :
           IssueAccess(subject, role, secret, ttl)
    \/ \E subject \in Subjects, jti \in SessionIDs, secret \in Secrets,
          ttl \in 1 .. MaxTTL :
           IssueRefresh(subject, jti, secret, ttl)
    \/ \E secret \in Secrets : Parse(secret)
    \/ Tick

SpecCodec == Init /\ [][NextCodec]_vars

----------------------------------------------------------------------------
\* The parsers given tokens the codec did not issue: a client that knows a key,
\* or none, builds a token of either kind under a signing method of its choice.

\* The token a client builds: the payload the codec would write, the header
\* and the signature of the method alg under the key secret.
Forged(kind, alg, subject, role, jti, secret, issuedAt, expiresAt) ==
    LET header == [alg |-> alg, typ |-> "JWT"]
        payload == IF kind = "access"
                   THEN MarshalAccess(AccessClaims(role, Empty, subject, issuedAt,
                                                   expiresAt))
                   ELSE MarshalRegistered(RefreshClaims(jti, subject, issuedAt,
                                                        expiresAt))
    IN <<header, payload, Sign(alg, secret, <<header, payload>>)>>

Forge(kind, alg, subject, secret, ttl) ==
    /\ codec = NoCodec
    /\ codec' = Issued(kind, subject, Admin, Uuid(1), secret, ttl,
                       Forged(kind, alg, subject, Admin, Uuid(1), secret,
                              NewNumericDate(now), NewNumericDate(now + ttl)))
    /\ UNCHANGED <<persons, tasks, records, nextID, uuids, now, pc, loc, resp, reply, ctx, cfg,
                   hist>>

NextForgery ==
    \/ \E kind \in {"access", "refresh"}, alg \in SigningMethods, subject \in Subjects,
          secret \in Secrets, ttl \in 0 .. MaxTTL :
           Forge(kind, alg, subject, secret, ttl)
    \/ \E secret \in Secrets : Parse(secret)
    \/ Tick

SpecForgery == Init /\ [][NextForgery]_vars

----------------------------------------------------------------------------
\* Logins against a store that holds a session already, with uuid.NewString()
\* free to return a value it returned before: the insert of Login can then fail
\* on the unique index of refresh_token.  No row is tombstoned in these runs
\* (the index also covers tombstoned rows, which `records` leaves out).

\* The session an earlier Login of b@x.com left in the store.
StoredToken == Uuid(1)
StoredRecord ==
    [ID |-> 1, PersonID |-> 2, RefreshToken |-> Sha256(StoredToken),
     ExpiresAt |-> RefreshTokenTTL]

InitCollision ==
    /\ persons = InitPersons
    /\ tasks = {}
    /\ records = {StoredRecord}
    /\ nextID = StoredRecord.ID + 1
    /\ uuids = 0
    /\ now = 0
    /\ pc = [p \in Procs |-> "idle"]
    /\ loc = [p \in Procs |-> NoLoc]
    /\ resp = NoResp
    /\ reply = NoReply
    /\ codec = NoCodec
    /\ ctx = NoCtx
    /\ cfg = Serving
    /\ hist = [InitHist EXCEPT !.returned = {StoredToken},
                               !.clean = {StoredToken},
                               !.root[StoredToken] = StoredToken,
                               !.owner[StoredToken] = StoredRecord.PersonID]

NextCollision ==
    \/ \E p \in Procs, email \in Emails, password \in Passwords :
           LoginRead(p, email, password)
    \/ \E p \in Procs : LoginCreateColliding(p)
    \/ \E t \in tasks : LastSeenRead(t)
    \/ \E t \in tasks : LastSeenSave(t)
    \/ \E id \in PersonIDs : DeletePerson(id)
    \/ Tick
    \/ Deliver

SpecCollision == InitCollision /\ [][NextCollision]_vars

----------------------------------------------------------------------------
\* The deletes of the session store on their own, called on a store that
\* earlier Logins have filled, beside the removal of accounts.

\* The sessions the store may hold at the start.
MaxRows == 3

\* The row of the n-th Login, made by the account owner at time 0.
StoreRow(n, owner) ==
    [ID |-> n, PersonID |-> owner, RefreshToken |-> Sha256(Uuid(n)),
     ExpiresAt |-> RefreshTokenTTL]

\* The stores those Logins can leave, some of their rows deleted since.
Stores ==
    UNION {{{StoreRow(n, owner[n]) : n \in kept} : kept \in SUBSET (1 .. MaxRows)} :
              owner \in [1 .. MaxRows -> PersonIDs]}

InitStore ==
    /\ persons = InitPersons
    /\ tasks = {}
    /\ records \in Stores
    /\ nextID = MaxRows + 1
    /\ uuids = MaxRows
    /\ now = 0
    /\ pc = [p \in Procs |-> "idle"]
    /\ loc = [p \in Procs |-> NoLoc]
    /\ resp = NoResp
    /\ reply = NoReply
    /\ codec = NoCodec
    /\ ctx = NoCtx
    /\ cfg = Serving
    /\ hist = InitHist

\* A call of one of the deletes returns: its rows, and its error to the caller.
Deleted(op, arg, deleted) ==
    /\ resp = NoResp
    /\ records' = deleted.rows
    /\ resp' = Return(op, arg, deleted.err, NoToken, NoToken)
    /\ UNCHANGED <<persons, tasks, nextID, uuids, now, pc, loc, reply, codec, ctx, cfg, hist>>

CallDelete(id) == Deleted("Delete", id, Delete(id))
CallDeleteByToken(token) == Deleted("DeleteByToken", token, DeleteByToken(token))
CallDeleteByPersonID(personID) ==
    Deleted("DeleteByPersonID", personID, DeleteByPersonID(personID))

NextStore ==
    \/ \E id \in 1 .. MaxRows : CallDelete(id)
    \/ \E n \in 1 .. MaxRows : CallDeleteByToken(Sha256(Uuid(n)))
    \/ \E personID \in PersonIDs : CallDeleteByPersonID(personID)
    \/ \E id \in PersonIDs : DeletePerson(id)
    \/ Deliver

SpecStore == InitStore /\ [][NextStore]_vars

----------------------------------------------------------------------------
\* The middleware of the protected routes: AuthMiddleware and RoleMiddleware
\* (part_003) in the chains of handlers gin runs, beside Login, Logout and the
\* removal of accounts (the last-seen goroutines, which write no column the
\* middleware decides on, do not get to run in these runs).  A header is the sequence of its words and of the
\* whitespace between them, a word the sequence of its characters; a token is
\* one word.

StatusForbidden == 403

Space == <<" ">>
Bearer == <<"B", "e", "a", "r", "e", "r">>
Schemes == {Bearer, <<"b", "e", "a", "r", "e", "r">>, <<"B", "a", "s", "i", "c">>}

\* strings.Fields: the words of the header, the whitespace dropped.
NotSpace(word) == word # Space
Fields(header) == SelectSeq(header, NotSpace)

\* unicode.ToLower on the letters of the scheme names, and strings.EqualFold.
ToLower(c) ==
    CASE c = "B" -> "b"
      [] c = "E" -> "e"
      [] c = "A" -> "a"
      [] c = "R" -> "r"
      [] OTHER -> c
EqualFold(s, t) ==
    /\ Len(s) = Len(t)
    /\ \A i \in 1 .. Len(s) : ToLower(s[i]) = ToLower(t[i])

\* The signed string of utils.IssueToken as the client gets it: three segments,
\* the payload the JSON of Claims{Role, RegisteredClaims{Subject, IssuedAt,
\* ExpiresAt}}, signed with HS256.
Compact(tokenString) ==
    SignedString(MarshalAccess(AccessClaims(tokenString[2].Role, Empty,
                                            tokenString[2].Subject,
                                            tokenString[2].IssuedAt,
                                            tokenString[2].ExpiresAt)),
                 tokenString[3])

\* A ReadPersonByID that also finds soft-deleted accounts.
ReadPersonByIDWithDeleted(id, dbUp) ==
    IF ~dbUp THEN [err |-> ErrUnresponsiveDatabase, person |-> NoPerson]
    ELSE IF id \in DOMAIN persons THEN [err |-> Nil, person |-> persons[id]]
    ELSE [err |-> ErrPersonNotFound, person |-> NoPerson]

\* personService.ReadPersonByID with a database that answers (dbUp) or not.
ReadPersonByID(id, dbUp) ==
    IF ~dbUp THEN [err |-> ErrUnresponsiveDatabase, person |-> NoPerson]
    ELSE ReadByID(id)

\* The handlers of a route: main.go mounts AuthMiddleware alone before
\* /persons/me and AuthMiddleware with the admin gate before the person
\* handlers; RoleMiddleware takes any role and can be mounted on any group.
AuthMw == [mw |-> "auth", required |-> ""]
RoleMw(requiredRole) == [mw |-> "role", required |-> requiredRole]
Chains ==
    {<<AuthMw>>, <<AuthMw, RoleMw(Admin)>>, <<AuthMw, RoleMw(User)>>, <<RoleMw(Admin)>>}

\* Tokens a client can build: under the secret of the refresh tokens, unsigned,
\* and, had it the access secret, for a subject that is no number, that is
\* empty, or that is the id of no account.
UnknownID == 12
BuiltTokens ==
    {Forged("access", "HS256", Itoa(1), Admin, Empty, "refreshTokenSecret", 0, MaxTime + 1),
     Forged("access", "none", Itoa(1), Admin, Empty, "", 0, MaxTime + 1),
     Forged("access", "HS256", <<10>>, Admin, Empty, JwtSecret, 0, MaxTime + 1),
     Forged("access", "HS256", Empty, Admin, Empty, JwtSecret, 0, MaxTime + 1),
     Forged("access", "HS256", Itoa(UnknownID), Admin, Empty, JwtSecret, 0, MaxTime + 1)}

\* The Authorization headers of the requests: none, a scheme without a token,
\* the token the client holds after every scheme, alone, after two blanks and
\* followed by a third word, and the built tokens as bearer tokens.
Headers ==
    {<<>>, <<Bearer>>}
    \cup (IF ctx.held = NoToken THEN {}
          ELSE {<<scheme, Space, ctx.held>> : scheme \in Schemes}
               \cup {<<ctx.held>>, <<Bearer, Space, Space, ctx.held>>,
                      <<Bearer, Space, ctx.held, Space, <<"x">>>>})
    \cup {<<Bearer, Space, t>> : t \in BuiltTokens}

\* The client keeps the access token of the response it is taking.
Keep ==
    /\ resp # NoResp
    /\ resp.access # NoToken
    /\ ctx.at = "idle"
    /\ ctx.held # Compact(resp.access)
    /\ ctx' = [ctx EXCEPT !.held = Compact(resp.access)]
    /\ UNCHANGED <<persons, tasks, records, nextID, uuids, now, pc, loc, resp, reply,
                   codec, cfg, hist>>

\* A request with this header arrives on a route with this chain of handlers.
Request(chain, header) ==
    /\ resp = NoResp
    /\ ctx.at = "idle"
    /\ ctx' = [ctx EXCEPT !.at = "run", !.route = chain, !.chain = chain,
                          !.header = header]
    /\ UNCHANGED <<persons, tasks, records, nextID, uuids, now, pc, loc, resp, reply,
                   codec, cfg, hist>>

\* c.AbortWithStatusJSON(status, gin.H{"error": message}): the response is
\* written and the handlers still pending are not run.
AbortWithStatusJSON(status, message) ==
    [ctx EXCEPT !.at = "done", !.status = status, !.error = message]

\* part_003:18-45: the header, its two fields, the parse of the token under the
\* access secret, the subject as a number.
AuthParse ==
    /\ resp = NoResp
    /\ ctx.at = "run"
    /\ ctx.chain # <<>>
    /\ Head(ctx.chain).mw = "auth"
    /\ LET authHeader == ctx.header
           parts == Fields(authHeader)
       IN ctx' =
            IF authHeader = <<>>
            THEN AbortWithStatusJSON(StatusUnauthorized, "Authorization header required")
            ELSE IF Len(parts) # 2 \/ ~EqualFold(parts[1], Bearer)
            THEN AbortWithStatusJSON(StatusUnauthorized,
                                     "Authorization header format must be Bearer <token>")
            ELSE LET parsed == ParseAccessToken(parts[2], JwtSecret)
                     userID == ParseUint(parsed.claims.Subject)
                 IN IF parsed.err # Nil
                    THEN AbortWithStatusJSON(StatusUnauthorized,
                                             "invalid or expired access token")
                    ELSE IF userID.err # Nil
                    THEN AbortWithStatusJSON(StatusUnauthorized, "invalid token subject")
                    ELSE [ctx EXCEPT !.at = "load", !.userID = userID.n]
    /\ UNCHANGED <<persons, tasks, records, nextID, uuids, now, pc, loc, resp, reply,
                   codec, cfg, hist>>

\* part_003:47-61: the account is loaded and set into the context, and c.Next()
\* runs the rest of the chain.
AuthLoad(dbUp) ==
    /\ resp = NoResp
    /\ ctx.at = "load"
    /\ LET found == ReadPersonByID(ctx.userID, dbUp)
       IN ctx' =
            IF found.err = ErrPersonNotFound
            THEN AbortWithStatusJSON(StatusUnauthorized, "user not found")
            ELSE IF found.err # Nil
            THEN AbortWithStatusJSON(StatusInternalServerError, "could not validate user")
            ELSE [ctx EXCEPT !.at = "run", !.chain = Tail(@), !.exists = TRUE,
                             !.user = found.person]
    /\ UNCHANGED <<persons, tasks, records, nextID, uuids, now, pc, loc, resp, reply,
                   codec, cfg, hist>>

\* A gate that lets every attached account through.
RoleMiddlewareOpen(requiredRole) ==
    IF ~ctx.exists THEN AbortWithStatusJSON(StatusUnauthorized, "unauthorized")
    ELSE [ctx EXCEPT !.chain = Tail(@)]

\* part_003:65-79, and the same gate in main.go:104-116 for person.Admin.
RoleMiddleware(requiredRole) ==
    IF ~ctx.exists THEN AbortWithStatusJSON(StatusUnauthorized, "unauthorized")
    ELSE IF ctx.user.Role # requiredRole
    THEN AbortWithStatusJSON(StatusForbidden, "forbidden")
    ELSE [ctx EXCEPT !.chain = Tail(@)]

RoleGate ==
    /\ resp = NoResp
    /\ ctx.at = "run"
    /\ ctx.chain # <<>>
    /\ Head(ctx.chain).mw = "role"
    /\ ctx' = RoleMiddleware(Head(ctx.chain).required)
    /\ UNCHANGED <<persons, tasks, records, nextID, uuids, now, pc, loc, resp, reply,
                   codec, cfg, hist>>

\* The handler of the route runs, the middleware before it having passed the
\* request on.
Handle ==
    /\ resp = NoResp
    /\ ctx.at = "run"
    /\ ctx.chain = <<>>
    /\ ctx' = [ctx EXCEPT !.at = "done", !.status = StatusOK, !.ran = TRUE]
    /\ UNCHANGED <<persons, tasks, records, nextID, uuids, now, pc, loc, resp, reply,
                   codec, cfg, hist>>

\* The response of the request has left; the client holds its token still.
Served ==
    /\ resp = NoResp
    /\ ctx.at = "done"
    /\ ctx' = [NoCtx EXCEPT !.held = ctx.held]
    /\ UNCHANGED <<persons, tasks, records, nextID, uuids, now, pc, loc, resp, reply,
                   codec, cfg, hist>>

NextMiddleware ==
    \/ \E p \in Procs, email \in Emails, password \in Passwords :
           LoginRead(p, email, password)
    \/ \E p \in Procs : LoginCreate(p)
    \/ \E p \in Procs, tok \in Presentable : Logout(p, tok)
    \/ \E id \in PersonIDs : DeletePerson(id)
    \/ Tick
    \/ Deliver
    \/ Keep
    \/ \E chain \in Chains, header \in Headers : Request(chain, header)
    \/ AuthParse
    \/ \E dbUp \in BOOLEAN : AuthLoad(dbUp)
    \/ RoleGate
    \/ Handle
    \/ Served

SpecMiddleware == Init /\ [][NextMiddleware]_vars

----------------------------------------------------------------------------
\* The whole token lifecycle against a store that holds a session already, with
\* uuid.NewString() free to return a value it returned before, in Login and in
\* Refresh (the last-seen goroutines, which write no session row, do not get to
\* run in these runs, and the clock stands still: an expiry only removes a row,
\* as a Logout does).  A tombstoned row stays in the unique index and `records`
\* leaves it out: the database refuses some inserts and updates that these
\* runs let through, and accepts none that they refuse.

NextUnique ==
    \/ \E p \in Procs, email \in Emails, password \in Passwords :
           LoginRead(p, email, password)
    \/ \E p \in Procs : LoginCreateColliding(p)
    \/ \E p \in Procs, tok \in Presentable : RefreshRead(p, tok)
    \/ \E p \in Procs : RefreshCheck(p)
    \/ \E p \in Procs : RotateReadColliding(p)
    \/ \E p \in Procs : RotateSave(p)
    \/ \E p \in Procs, tok \in Presentable : Logout(p, tok)
    \/ \E id \in PersonIDs : DeletePerson(id)
    \/ Deliver

SpecUnique == InitCollision /\ [][NextUnique]_vars

----------------------------------------------------------------------------
\* The accounts on their own: personService.CreatePerson, UpdateEmail and
\* DeletePerson (part_004) on the persons table, whose email column carries a
\* unique index (part_005:35).  A soft delete leaves the row, and so its email,
\* in the index.  The requests of these runs pass validateEmail and
\* CheckPassword.

MaxPersons == 3

Addresses == Emails \cup {"c@x.com"}
StrongPasswords == {"Passw0rd!"}

\* An account created with the role of an administrator.
NewPersonAsAdmin(id, email, password) ==
    [ID |-> id, Email |-> email, Password |-> password, Role |-> Admin,
     LastSeen |-> now, Deleted |-> FALSE]

\* NewPerson, part_005:47-54, with the id the insert gives the row.
NewPerson(id, email, password) ==
    [ID |-> id, Email |-> email, Password |-> password, Role |-> User,
     LastSeen |-> now, Deleted |-> FALSE]

\* An insert into a table without the unique index of email.
PersonCreateWithoutIndex(person) == Nil

\* personRepository.Create, part_005:110-121: the error of the INSERT.  The
\* index idx_persons_email refuses an email that any row holds (23505).
PersonCreate(person) ==
    IF \E i \in DOMAIN persons : persons[i].Email = person.Email
    THEN ErrEmailAlreadyExists
    ELSE Nil

\* personRepository.Update, part_005:140-151: the errors db.Save(person) can
\* end with.  The UPDATE by primary key skips a tombstoned row; gorm then
\* inserts the record, which either writes over the tombstoned row (ON
\* CONFLICT DO UPDATE, and the index of email is checked by that update) or
\* fails on the primary key (persons_pkey: ErrPersonNotUpdated), depending on
\* the gorm version.
PersonUpdate(person) ==
    LET taken == \E i \in DOMAIN persons :
                     i # person.ID /\ persons[i].Email = person.Email
    IN IF ~persons[person.ID].Deleted
       THEN IF taken THEN {ErrEmailAlreadyExists} ELSE {Nil}
       ELSE IF taken THEN {ErrEmailAlreadyExists, ErrPersonNotUpdated}
            ELSE {Nil, ErrPersonNotUpdated}

\* personService.CreatePerson, part_004:334-355.  The row gets the next id of
\* the table (the ids a refused insert uses up are not counted).
CreatePerson(email, password) ==
    /\ resp = NoResp
    /\ Cardinality(DOMAIN persons) < MaxPersons
    /\ LET id == Cardinality(DOMAIN persons) + 1
           person == NewPerson(id, email, Bcrypt(password))
           err == PersonCreate(person)
       IN /\ persons' = IF err = Nil THEN persons @@ (id :> person) ELSE persons
          /\ resp' = Return("CreatePerson", <<0, email>>, err, NoToken, NoToken)
    /\ UNCHANGED <<tasks, records, nextID, uuids, now, pc, loc, reply, codec, ctx, cfg, hist>>

\* personService.UpdateEmail, part_004:404-416: ReadByID, then the new email in
\* the copy read.
UpdateEmailRead(p, id, email) ==
    /\ Free(p)
    /\ LET found == ReadByID(id)
       IN IF found.err # Nil
          THEN Finish(p, Return("UpdateEmail", <<id, email>>, found.err,
                                NoToken, NoToken))
          ELSE Goto(p, "UpdateEmailSave",
                    [NoLoc EXCEPT !.op = "UpdateEmail", !.email = email,
                                  !.user = [found.person EXCEPT !.Email = email]])
    /\ UNCHANGED <<persons, tasks, records, nextID, uuids, now, hist>>

\* part_004:417-421: the Save of the copy.
UpdateEmailSave(p) ==
    /\ pc[p] = "UpdateEmailSave"
    /\ \E err \in PersonUpdate(loc[p].user) :
          /\ persons' = IF err = Nil THEN SavePerson(loc[p].user) ELSE persons
          /\ Finish(p, Return("UpdateEmail", <<loc[p].user.ID, loc[p].email>>, err,
                              NoToken, NoToken))
    /\ UNCHANGED <<tasks, records, nextID, uuids, now, hist>>

\* personService.UpdatePassword, part_004:424-441: the hash, ReadByID, then the
\* new hash in the copy read.
UpdatePasswordRead(p, id, password) ==
    /\ Free(p)
    /\ LET found == ReadByID(id)
       IN IF found.err # Nil
          THEN Finish(p, Return("UpdatePassword", <<id>>, found.err, NoToken, NoToken))
          ELSE Goto(p, "UpdatePasswordSave",
                    [NoLoc EXCEPT !.op = "UpdatePassword",
                                  !.user = [found.person EXCEPT
                                               !.Password = Bcrypt(password)]])
    /\ UNCHANGED <<persons, tasks, records, nextID, uuids, now, hist>>

\* part_004:442-447: the Save of the copy.
UpdatePasswordSave(p) ==
    /\ pc[p] = "UpdatePasswordSave"
    /\ \E err \in PersonUpdate(loc[p].user) :
          /\ persons' = IF err = Nil THEN SavePerson(loc[p].user) ELSE persons
          /\ Finish(p, Return("UpdatePassword", <<loc[p].user.ID>>, err,
                              NoToken, NoToken))
    /\ UNCHANGED <<tasks, records, nextID, uuids, now, hist>>

NextAccounts ==
    \/ \E email \in Addresses, password \in StrongPasswords :
           CreatePerson(email, password)
    \/ \E p \in Procs, id \in 1 .. MaxPersons, email \in Addresses :
           UpdateEmailRead(p, id, email)
    \/ \E p \in Procs : UpdateEmailSave(p)
    \/ \E id \in DOMAIN persons : DeletePerson(id)
    \/ Deliver

SpecAccounts == Init /\ [][NextAccounts]_vars

----------------------------------------------------------------------------
\* The start of the process in every environment, and the service once it runs:
\* main calls LoadConfig, hands the secrets to the engine and the middleware by
\* value (main.go:74-82, 93, 103) and serves.  No statement of the repository
\* assigns to a field of the Config.

InitConfig ==
    /\ persons = InitPersons
    /\ tasks = {}
    /\ records = {}
    /\ nextID = 1
    /\ uuids = 0
    /\ now = 0
    /\ pc = [p \in Procs |-> "idle"]
    /\ loc = [p \in Procs |-> NoLoc]
    /\ resp = NoResp
    /\ reply = NoReply
    /\ codec = NoCodec
    /\ ctx = NoCtx
    /\ cfg \in {Started(env) : env \in Environments}
    /\ hist = InitHist

\* main.go:32-35.
Start ==
    /\ cfg.at = "start"
    /\ cfg' = [cfg EXCEPT !.at = LoadConfig(cfg.env).at,
                          !.Token = LoadConfig(cfg.env).Token]
    /\ UNCHANGED <<persons, tasks, records, nextID, uuids, now, pc, loc, resp, reply,
                   codec, ctx, hist>>

\* main.go:123-131: the server listens.
Serve ==
    /\ cfg.at = "loaded"
    /\ cfg' = [cfg EXCEPT !.at = "serving"]
    /\ UNCHANGED <<persons, tasks, records, nextID, uuids, now, pc, loc, resp, reply,
                   codec, ctx, hist>>

\* A request is served once the server listens.
Listening == cfg.at = "serving"

NextConfig ==
    \/ Start
    \/ Serve
    \/ \E p \in Procs, email \in Emails, password \in Passwords :
           Listening /\ LoginRead(p, email, password)
    \/ \E p \in Procs : Listening /\ LoginCreate(p)
    \/ \E p \in Procs, tok \in Presentable : Listening /\ Logout(p, tok)
    \/ Listening /\ Deliver

SpecConfig == InitConfig /\ [][NextConfig]_vars

----------------------------------------------------------------------------
\* Two sessions side by side: the store holds the session of an earlier Login
\* of either account, whose token the client has, and the lifecycle runs beside
\* it with one more Login (the last-seen goroutines, which write no session
\* row, do not run, and no account is removed).

\* The session of the earlier Login.
EarlierRecord(owner) == [StoredRecord EXCEPT !.PersonID = owner]

InitSessions ==
    /\ persons = InitPersons
    /\ tasks = {}
    /\ \E owner \in PersonIDs :
          /\ records = {EarlierRecord(owner)}
          /\ hist = [InitHist EXCEPT !.returned = {StoredToken},
                                     !.clean = {StoredToken},
                                     !.root[StoredToken] = StoredToken,
                                     !.owner[StoredToken] = owner]
    /\ nextID = StoredRecord.ID + 1
    /\ uuids = 1
    /\ now = 0
    /\ pc = [p \in Procs |-> "idle"]
    /\ loc = [p \in Procs |-> NoLoc]
    /\ resp = NoResp
    /\ reply = NoReply
    /\ codec = NoCodec
    /\ ctx = NoCtx
    /\ cfg = Serving

NextSessions ==
    \/ \E p \in Procs, email \in Emails, password \in Passwords :
           LoginRead(p, email, password)
    \/ \E p \in Procs : LoginCreate(p)
    \/ \E p \in Procs, tok \in Presentable : RefreshRead(p, tok)
    \/ \E p \in Procs : RefreshCheck(p)
    \/ \E p \in Procs : RotateRead(p)
    \/ \E p \in Procs : RotateSave(p)
    \/ \E p \in Procs, tok \in Presentable : Logout(p, tok)
    \/ Tick
    \/ Deliver

SpecSessions == InitSessions /\ [][NextSessions]_vars

----------------------------------------------------------------------------
\* An account beside the last-seen goroutine of a Login: the runs begin when a
\* Login of either account has started its goroutine (service.go:93-103) and
\* returned, some time after the accounts were last seen, and UpdateEmail,
\* UpdatePassword and DeletePerson of the person service run between the
\* statements of the goroutine, one call at a time.  The clock stands still.

InitProfile ==
    /\ persons = InitPersons
    /\ tasks \in {{LastSeenTask(1, userID)} : userID \in PersonIDs}
    /\ records = {}
    /\ nextID = 1
    /\ uuids = 0
    /\ now = 1
    /\ pc = [p \in Procs |-> "idle"]
    /\ loc = [p \in Procs |-> NoLoc]
    /\ resp = NoResp
    /\ reply = NoReply
    /\ codec = NoCodec
    /\ ctx = NoCtx
    /\ cfg = Serving
    /\ hist = InitHist

\* The person service serves one call at a time in these runs.
NoCall == \A q \in Procs : pc[q] = "idle"

NextProfile ==
    \/ \E t \in tasks : LastSeenRead(t)
    \/ \E t \in tasks : LastSeenSave(t)
    \/ \E p \in Procs, id \in PersonIDs, email \in Emails :
           NoCall /\ UpdateEmailRead(p, id, email)
    \/ \E p \in Procs : UpdateEmailSave(p)
    \/ \E p \in Procs, id \in PersonIDs, password \in StrongPasswords :
           NoCall /\ UpdatePasswordRead(p, id, password)
    \/ \E p \in Procs : UpdatePasswordSave(p)
    \/ \E id \in PersonIDs : NoCall /\ DeletePerson(id)
    \/ Deliver

SpecProfile == InitProfile /\ [][NextProfile]_vars

----------------------------------------------------------------------------
\* Passwords at the two places that judge them: CheckPassword of the person
\* service (password_validator.go) and the binding of the request payloads,
\* `required,min=8,alphanum` (handler.go:14, part_004:20), at the handlers
\* AuthHandler.Login and PersonHandler.CreatePerson.  A password is the
\* sequence of its characters; the emails of the requests are well-formed.

StatusCreated == 201
StatusBadRequest == 400
StatusConflict == 409

PASSWORD_MINIMUM_LENGTH == 8
BindingMin == 8

ErrPasswordNotAlphanumeric == "password not alphanumeric"
ErrPasswordDoesNotHaveSpecialCharacter == "password does not contain special characters"
ErrPasswordShouldBeNCharacters == "password should be at least 8 characters"
ErrValidation == "Field validation failed"

\* The characters of the runs: letters, a digit, two of the special characters
\* of password_validator.go:48, a space, and a letter of two bytes.
Letters == {"a", "Z"}
Numerals == {"7"}
Special == {"!", "_"}
Alphabet == Letters \cup Numerals \cup Special \cup {" ", "é"}

\* The longest tail of a password of the runs.
MaxTail == 2

\* The passwords of the runs: nothing, five or six letters, and a tail.
Stems == {<<>>, <<"a", "a", "a", "a", "a">>, <<"a", "a", "a", "a", "a", "a">>}
Words ==
    {stem \o tail : stem \in Stems,
                    tail \in UNION {[1 .. n -> Alphabet] : n \in 0 .. MaxTail}}

\* len(password): the bytes of the UTF-8 encoding.
RECURSIVE ByteLen(_)
ByteLen(password) ==
    IF password = <<>> THEN 0
    ELSE (IF Head(password) = "é" THEN 2 ELSE 1) + ByteLen(Tail(password))

\* password_validator.go:29-55.
checkLength(password) == ByteLen(password) >= PASSWORD_MINIMUM_LENGTH
checkAlphanumeric(password) ==
    /\ \E i \in 1 .. Len(password) : password[i] \in Letters
    /\ \E i \in 1 .. Len(password) : password[i] \in Numerals
checkSpecialCharacter(password) ==
    \E i \in 1 .. Len(password) : password[i] \in Special

\* CheckPassword, password_validator.go:16-27.
CheckPassword(password) ==
    IF ~checkLength(password) THEN ErrPasswordShouldBeNCharacters
    ELSE IF ~checkAlphanumeric(password) THEN ErrPasswordNotAlphanumeric
    ELSE IF ~checkSpecialCharacter(password)
    THEN ErrPasswordDoesNotHaveSpecialCharacter
    ELSE Nil

\* c.ShouldBindJSON(&req) on the password of the payload: required (not
\* empty), min=8 (eight characters or more), alphanum (ASCII letters and
\* digits only).
ShouldBindJSON(password) ==
    IF \/ password = <<>>
       \/ Len(password) < BindingMin
       \/ \E i \in 1 .. Len(password) : password[i] \notin Letters \cup Numerals
    THEN ErrValidation
    ELSE Nil

\* The password account 1 was registered with passes CheckPassword; the one of
\* account 2 is alphanumeric.
RegisteredPassword(id) ==
    <<"a", "a", "a", "a", "a", "a", "7">> \o (IF id = 1 THEN <<"!">> ELSE <<"7">>)

InitPasswords ==
    /\ persons = [id \in PersonIDs |->
                     [InitPersons[id] EXCEPT !.Password = Bcrypt(RegisteredPassword(id))]]
    /\ tasks = {}
    /\ records = {}
    /\ nextID = 1
    /\ uuids = 0
    /\ now = 0
    /\ pc = [p \in Procs |-> "idle"]
    /\ loc = [p \in Procs |-> NoLoc]
    /\ resp = NoResp
    /\ reply = NoReply
    /\ codec = NoCodec
    /\ ctx = NoCtx
    /\ cfg = Serving
    /\ hist = InitHist

\* The handler answers the request itself; the engine is not called.
Answer(op, arg, err, status, message) ==
    /\ resp = NoResp
    /\ resp' = Return(op, arg, err, NoToken, NoToken)
    /\ reply' = ErrorJSON(status, message)
    /\ UNCHANGED <<tasks, records, nextID, uuids, now, pc, loc, codec, ctx, cfg, hist>>

\* AuthHandler.Login, handler.go:61-78: the binding, then the engine.
PostLogin(p, email, password) ==
    IF ShouldBindJSON(password) # Nil
    THEN /\ Free(p)
         /\ Answer("Bind", password, ErrValidation, StatusBadRequest,
                   "invalid email or password format")
         /\ UNCHANGED persons
    ELSE LoginRead(p, email, password)

\* PersonHandler.CreatePerson, part_004:109-126, with personService.CreatePerson:
\* the binding, validate, the insert, and the response.
PostPerson(email, password) ==
    IF ShouldBindJSON(password) # Nil
    THEN /\ Answer("Bind", password, ErrValidation, StatusBadRequest,
                   "invalid email or password format")
         /\ UNCHANGED persons
    ELSE IF CheckPassword(password) # Nil
    THEN /\ Answer("CreatePerson", password, CheckPassword(password),
                   StatusInternalServerError, "could not create person")
         /\ UNCHANGED persons
    ELSE LET id == Cardinality(DOMAIN persons) + 1
             person == NewPerson(id, email, Bcrypt(password))
             err == PersonCreate(person)
         IN /\ Cardinality(DOMAIN persons) < MaxPersons
            /\ persons' = IF err = Nil THEN persons @@ (id :> person) ELSE persons
            /\ IF err = Nil
               THEN Answer("CreatePerson", password, Nil, StatusCreated, "")
               ELSE Answer("CreatePerson", password, err, StatusConflict,
                           "email already registered")

NextPasswords ==
    \/ \E p \in Procs, email \in Emails, password \in Words :
           PostLogin(p, email, password)
    \/ \E p \in Procs : LoginCreate(p)
    \/ \E email \in Addresses, password \in Words : PostPerson(email, password)
    \/ Deliver

SpecPasswords == InitPasswords /\ [][NextPasswords]_vars

----------------------------------------------------------------------------
\* The token lifecycle: what the calls owe their callers.  hist is the record of
\* what happened; a property of a call is a property of the step that ends it.

\* The account the token tok was issued to has not been soft-deleted.
OwnerAlive(tok) ==
    /\ hist.owner[tok] \in PersonIDs
    /\ ~persons[hist.owner[tok]].Deleted

\* No account has been soft-deleted.
NobodyDeleted == \A id \in PersonIDs : ~persons[id].Deleted

\* C1: a refresh token is single-use.  A Refresh that succeeds for the token t
\* returns a new token different from t and leaves no row under the hash of t;
\* every Refresh that presents t after that rotation ends at once with the
\* invalid-refresh-token error and without tokens.
C1_RotatedTokenIsRejected ==
    [][\A p \in Procs, tok \in Tokens :
          /\ (tok \in hist.rotated /\ RefreshRead(p, tok))
                => resp' = Return("Refresh", tok, ErrInvalidRefreshToken,
                                  NoToken, NoToken)
          /\ (loc[p].tok = tok /\ RotateSave(p) /\ resp'.err = Nil)
                => /\ resp'.refresh # tok
                   /\ resp'.refresh \notin hist.returned
                   /\ \A r \in records' : r.RefreshToken # Sha256(tok)]_vars

\* C1, the case: with no expiry, logout or account removal in play, a Refresh
\* was just turned down for a token that an earlier Refresh had rotated.
C1_LateRefreshSeen ==
    /\ resp.op = "Refresh"
    /\ resp.err = ErrInvalidRefreshToken
    /\ resp.arg \in hist.rotated
    /\ now = 0
    /\ hist.loggedOut = {}
    /\ NobodyDeleted

\* C2: of the calls Refresh(t) for one token t, at most one succeeds: no Refresh
\* returns tokens for a token that another Refresh has already rotated.
C2_OneSuccessPerToken ==
    [][\A p \in Procs :
          (loc[p].tok \in hist.rotated /\ RotateSave(p)) => resp'.err # Nil]_vars

\* C3: the Refresh that loses the race, the one whose Rotate finds the old hash
\* gone because the other call rotated it, ends with the invalid-refresh-token
\* error of a late call and without tokens.
C3_LoserGetsInvalidRefreshToken ==
    [][\A p \in Procs :
          (/\ loc[p].tok \in hist.rotated
           /\ OwnerAlive(loc[p].tok)
           /\ ReadByToken(Sha256(loc[p].tok)).err # Nil
           /\ RotateRead(p))
             => resp' = Return("Refresh", loc[p].tok, ErrInvalidRefreshToken,
                               NoToken, NoToken)]_vars

\* The Logins whose chain of tokens the row r belongs to.
Lineage(r) == {hist.root[t] : t \in {u \in Tokens : Sha256(u) = r.RefreshToken}}

\* C4: a Login creates one session row and a rotation rewrites that row in
\* place: no two rows belong to the chain of one Login, and the store holds as
\* many rows as there were successful Logins whose row was not deleted since by
\* a Logout or by the delete of an expired token.
C4_OneRowPerLogin ==
    /\ \A r, q \in records : Lineage(r) \cap Lineage(q) # {} => r = q
    /\ Cardinality(records) = hist.logins - hist.removed

\* The token tok was handed out, and every token of its chain, tok included,
\* has been presented at most once so far; its account is not deleted.
Uninterrupted(tok) == tok \in hist.clean /\ OwnerAlive(tok)

\* The email and password are those of an account that is not deleted.
Registered(email, password) ==
    \E id \in PersonIDs :
        /\ ~persons[id].Deleted
        /\ persons[id].Email = email
        /\ persons[id].Password = Bcrypt(password)

\* The access token is within its lifetime.
InTime(access) == access # NoToken /\ now < access[2].ExpiresAt

\* The access token verifies, and names the account id as its subject with
\* that account's role.
Carries(access, id) ==
    LET parsed == ParseToken(access, JwtSecret)
    IN /\ parsed.err = Nil
       /\ parsed.claims.Subject = Itoa(id)
       /\ parsed.claims.Role = persons[id].Role

\* C5: a Login with the credentials of an account that is not deleted succeeds,
\* and so does every Refresh of a chain in which each call presents the token
\* the call before it returned, before that token expires and while the account
\* exists: no step of such a call fails, and the access token it returns
\* verifies, for as long as it lives, to the id and the role of the account that
\* logged in.
C5_ChainOfRefreshesSucceeds ==
    [][\A p \in Procs :
          /\ \A email \in Emails, password \in Passwords :
                (Registered(email, password) /\ LoginRead(p, email, password))
                   => pc'[p] = "LoginCreate"
          /\ LoginCreate(p)
                => /\ resp'.err = Nil
                   /\ resp'.access # NoToken
                   /\ InTime(resp'.access) => Carries(resp'.access, loc[p].user.ID)
                   /\ resp'.refresh \in hist'.clean
          /\ \A tok \in Tokens :
                (Uninterrupted(tok) /\ tok \notin hist.used /\ RefreshRead(p, tok))
                   => pc'[p] = "RefreshCheck"
          /\ (/\ Uninterrupted(loc[p].tok)
              /\ now <= loc[p].rec.ExpiresAt
              /\ RefreshCheck(p))
                => pc'[p] = "RotateRead"
          /\ (Uninterrupted(loc[p].tok) /\ RotateRead(p))
                => pc'[p] = "RotateSave"
          /\ (Uninterrupted(loc[p].tok) /\ RotateSave(p))
                => /\ resp'.err = Nil
                   /\ resp'.access # NoToken
                   /\ InTime(resp'.access)
                         => Carries(resp'.access, hist.owner[loc[p].tok])
                   /\ resp'.refresh \in hist'.clean]_vars

\* C5, the case: the second Refresh of a chain has just succeeded, on the token
\* that the first one returned.
C5_SecondRefreshSeen ==
    /\ resp.op = "Refresh"
    /\ resp.err = Nil
    /\ resp.refresh \in hist.clean
    /\ resp.arg \in hist.rotated
    /\ hist.root[resp.arg] # resp.arg
    /\ hist.root[resp.arg] \in hist.rotated
    /\ Carries(resp.access, hist.owner[resp.refresh])

\* C6: a Refresh that finds its token expired ends with the invalid-refresh-token
\* error and without tokens, and leaves no row under the hash of that token.
C6_ExpiredRowIsDeleted ==
    [][\A p \in Procs :
          (pc[p] = "RefreshCheck" /\ now > loc[p].rec.ExpiresAt /\ RefreshCheck(p))
             => /\ resp' = Return("Refresh", loc[p].tok, ErrInvalidRefreshToken,
                                  NoToken, NoToken)
                /\ \A r \in records' : r.RefreshToken # Sha256(loc[p].tok)]_vars

\* C7: a Logout with a token that a Login or a Refresh returned, and that no
\* call has used since, succeeds and leaves no row under the hash of the token.
C7_LogoutOfReturnedTokenSucceeds ==
    [][\A p \in Procs, tok \in Tokens :
          (/\ tok \in hist.returned
           /\ tok \notin hist.used
           /\ OwnerAlive(tok)
           /\ Logout(p, tok))
             => /\ resp'.err = Nil
                /\ \A r \in records' : r.RefreshToken # Sha256(tok)]_vars

\* The token tok opens no session: it was never handed out, or a Logout has
\* already succeeded with it, or a Refresh has rotated it away.
Dead(tok) ==
    \/ tok \notin hist.returned
    \/ tok \in hist.loggedOut
    \/ tok \in hist.rotated

\* C8: a Logout with a token that was never issued, was already logged out or
\* was rotated away ends with the invalid-refresh-token error and leaves the
\* session rows as they were.
C8_LogoutOfDeadTokenFails ==
    [][\A p \in Procs, tok \in Tokens :
          (Dead(tok) /\ Logout(p, tok))
             => /\ resp' = Return("Logout", tok, ErrInvalidRefreshToken,
                                  NoToken, NoToken)
                /\ records' = records]_vars

\* C8, the case: a Logout with a token that a Refresh had rotated away was just
\* turned down, and the row of the session, under its new hash, is in the store.
C8_LogoutOfRotatedTokenSeen ==
    /\ resp.op = "Logout"
    /\ resp.err = ErrInvalidRefreshToken
    /\ resp.arg \in hist.rotated
    /\ resp.arg \notin hist.loggedOut
    /\ records # {}
    /\ NobodyDeleted

\* C9: a Login with an unknown email, with the email of a soft-deleted account
\* or with a wrong password ends at once with the one invalid-credentials error,
\* returns no tokens and writes no session row.
C9_LoginFailsAlike ==
    [][\A p \in Procs, email \in Emails, password \in Passwords :
          (~Registered(email, password) /\ LoginRead(p, email, password))
             => /\ resp' = Return("Login", email, ErrInvalidCredentials,
                                  NoToken, NoToken)
                /\ pc'[p] = "idle"
                /\ records' = records]_vars

\* C9, the case: the Login of a soft-deleted account was just turned down, as
\* that of an unknown email would be.
C9_DeletedAccountLoginSeen ==
    /\ resp.op = "Login"
    /\ resp.err = ErrInvalidCredentials
    /\ resp.arg = "a@x.com"
    /\ persons[1].Deleted

\* C10: the store never holds a refresh token as the client got it: the token
\* column of every row is the hash of a token that was returned, and equals no
\* value that was returned, refresh token or access token.
C10_OnlyHashesStored ==
    \A r \in records :
        /\ r.RefreshToken \notin hist.returned
        /\ r.RefreshToken \notin {resp.refresh, resp.access}
        /\ \E t \in hist.returned : r.RefreshToken = Sha256(t)

\* C10, the case: the store holds the row of a session whose token a Refresh
\* has replaced.
C10_RotatedRowSeen ==
    \E r \in records :
        \E t \in hist.returned :
            /\ r.RefreshToken = Sha256(t)
            /\ hist.root[t] # t

----------------------------------------------------------------------------
\* Login and the row of its refresh token.

\* The insert of a row for the secret rawRefresh fails on the unique index.
Collides(rawRefresh) == \E r \in records : r.RefreshToken = Sha256(rawRefresh)

\* C11: Login hands out no refresh token whose row failed to persist.  When
\* Login returns a refresh token, the store holds at that moment a row with the
\* hash of the token, the id of the account as owner and the time of the login
\* plus the refresh TTL as expiry; when the insert fails, Login returns an
\* error and no tokens, and the HTTP response carries none.
C11_NoTokenWithoutRow ==
    [][\A p \in Procs, n \in UuidPool :
          LoginCreateWith(p, Uuid(n))
             => /\ resp'.refresh # NoToken
                      => \E r \in records' :
                            /\ r.RefreshToken = Sha256(resp'.refresh)
                            /\ r.PersonID = loc[p].user.ID
                            /\ r.ExpiresAt = now + RefreshTokenTTL
                /\ Collides(Uuid(n))
                      => /\ resp'.err # Nil
                         /\ resp'.access = NoToken /\ resp'.refresh = NoToken
                         /\ reply'.access = NoToken /\ reply'.refresh = NoToken
                         /\ records' = records]_vars

\* C11, the case: the insert of a Login with valid credentials has just failed
\* on the hash of the stored session, and the Login returned its error alone.
C11_FailedCreateSeen ==
    /\ resp.op = "Login"
    /\ resp.err = ErrCreateFailed
    /\ resp.refresh = NoToken
    /\ StoredRecord \in records

\* C12: when the insert of Login fails because the hash of the generated secret
\* is the hash of a row in the store, Login generates another secret and inserts
\* again: the collision does not make a Login with valid credentials fail.
C12_CollisionIsRetried ==
    [][\A p \in Procs, n \in UuidPool :
          (Collides(Uuid(n)) /\ LoginCreateWith(p, Uuid(n)))
             => resp'.err = Nil /\ resp'.refresh # NoToken]_vars

----------------------------------------------------------------------------
\* The removal of an account.

\* The email and password are those of an account that DeletePerson has removed.
Removed(email, password) ==
    \E id \in hist.deleted :
        /\ persons[id].Email = email
        /\ persons[id].Password = Bcrypt(password)

\* C13: a soft-deleted account is invisible to every lookup.  Once a
\* DeletePerson(id) has completed, a Login with the email and the right password
\* of that account ends with the invalid-credentials error, ReadByToken finds no
\* session under the hash of a refresh token issued to the account, and a
\* Refresh with such a token ends with the invalid-refresh-token error.
C13_DeletedAccountIsInvisible ==
    [][\A p \in Procs :
          /\ \A email \in Emails, password \in Passwords :
                (Removed(email, password) /\ LoginRead(p, email, password))
                   => resp' = Return("Login", email, ErrInvalidCredentials,
                                     NoToken, NoToken)
          /\ \A tok \in hist.returned :
                hist.owner[tok] \in hist.deleted
                   => /\ ReadByToken(Sha256(tok)).err = ErrRecordNotFoundByGivenToken
                      /\ RefreshRead(p, tok)
                            => resp' = Return("Refresh", tok, ErrInvalidRefreshToken,
                                              NoToken, NoToken)]_vars

\* C14: the removal of an account destroys its refresh sessions in bulk.  When
\* DeletePerson(id) has completed, no session row owned by id is in the store.
C14_SessionsGoWithTheAccount ==
    [][\A id \in PersonIDs :
          DeletePerson(id) => \A r \in records' : r.PersonID # id]_vars

----------------------------------------------------------------------------
\* The verification of the presented refresh token.  A refresh token of this
\* service is a bare uuid; it lives as long as the row written for it, whose
\* ExpiresAt is the time of its issue plus the refresh TTL.

\* C15: Refresh turns down, with the invalid-refresh-token error and before it
\* touches any row, every token that is malformed, tampered with, expired by
\* the expiry it was issued with, or whose hash matches no session: the store is
\* left as it was and no tokens are returned.
C15_BadTokenTouchesNoRow ==
    [][\A p \in Procs :
          /\ \A tok \in Presentable :
                (ReadByToken(Sha256(tok)).err # Nil /\ RefreshRead(p, tok))
                   => /\ resp' = Return("Refresh", tok, ErrInvalidRefreshToken,
                                        NoToken, NoToken)
                      /\ records' = records
          /\ (p \in hist.late /\ RefreshCheck(p))
                => /\ resp' = Return("Refresh", loc[p].tok, ErrInvalidRefreshToken,
                                     NoToken, NoToken)
                   /\ records' = records]_vars

\* C16: Logout verifies the token before it deletes anything.  A Logout with
\* an expired refresh token, the row of its session still stored or not, or with
\* a malformed one ends with the invalid-refresh-token error and deletes no row.
C16_LogoutVerifiesToken ==
    [][\A p \in Procs, tok \in Presentable :
          ((tok = BogusToken \/ Outlived(tok)) /\ Logout(p, tok))
             => /\ resp' = Return("Logout", tok, ErrInvalidRefreshToken,
                                  NoToken, NoToken)
                /\ records' = records]_vars

----------------------------------------------------------------------------
\* The last-seen update of Login.

\* C17: the outcome of Login does not depend on the last-seen update.  Login
\* persists its row and returns both tokens with the goroutine just started and
\* no attempt made, and no attempt, whether it succeeds or fails, changes a
\* session row, a call in flight or a response.
C17_LoginIgnoresLastSeen ==
    [][/\ \A p \in Procs :
             LoginCreate(p)
                => /\ resp' = Return("Login", loc[p].email, Nil, loc[p].access,
                                     Uuid(uuids + 1))
                   /\ reply'.status = StatusOK
                   /\ pc'[p] = "idle"
                   /\ \E r \in records' \ records :
                         /\ r.RefreshToken = Sha256(resp'.refresh)
                         /\ r.PersonID = loc[p].user.ID
                   /\ \E t \in tasks' \ tasks :
                         /\ t.userID = loc[p].user.ID
                         /\ t.i = 0 /\ t.at = "read"
       /\ \A t \in tasks :
             (LastSeenRead(t) \/ LastSeenSave(t))
                => UNCHANGED <<records, pc, loc, resp, reply, hist>>]_vars

\* C17, the case: two attempts of the goroutine have failed and the third is
\* to come, while the Login that started it has long returned its tokens and
\* the row of its session is in the store.
C17_FailingUpdateSeen ==
    \E t \in tasks :
        /\ t.i = MaxAttempts - 1
        /\ hist.logins > 0
        /\ \E r \in records : r.PersonID = t.userID /\ r.ID = t.n

\* The goroutine n is running.
Running(n) == \E t \in tasks : t.n = n

\* C18: the goroutine a successful Login starts makes at most three attempts
\* of UpdateLastSeen, ends with the first attempt that succeeds, always ends,
\* and is not cancelled when the Login that started it completes: only its own
\* steps end it.
C18_LastSeenTaskEnds ==
    /\ [](\A t \in tasks : t.i \in 0 .. MaxAttempts - 1)
    /\ [][\A t \in tasks :
             /\ (LastSeenRead(t) \/ LastSeenSave(t))
                   => \/ ~Running(t.n)'
                      \/ \E u \in tasks' :
                            /\ u.n = t.n
                            /\ \/ u.i = t.i /\ t.at = "read" /\ u.at = "save"
                               \/ u.i = t.i + 1 /\ u.at = "read" /\ persons' = persons
             /\ (LastSeenSave(t) /\ persons' # persons) => ~Running(t.n)'
             /\ ~Running(t.n)' => (LastSeenRead(t) \/ LastSeenSave(t))]_vars
    /\ \A n \in 1 .. MaxLogins : Running(n) ~> ~Running(n)

\* C18, the case: the goroutine has ended after its third attempt failed too;
\* the account was removed, and its last-seen time was never written.
C18_ThirdFailureSeen ==
    /\ hist.logins > 0
    /\ tasks = {}
    /\ now > 0
    /\ \E r \in records :
          /\ persons[r.PersonID].Deleted
          /\ persons[r.PersonID].LastSeen = 0
          /\ r.ExpiresAt > RefreshTokenTTL

----------------------------------------------------------------------------
\* The transport layer.

\* The messages of the internal-error responses.
FixedMessages == {"could not login", "could not refresh token", "could not logout"}

\* C19: the handlers of Login, Refresh and Logout answer the invalid-credentials
\* and invalid-refresh-token errors with 401, every other failure of the engine,
\* failures of the store included, with 500 and a fixed message that is not the
\* error, and put tokens into a response only when the engine returned success,
\* and then the tokens it returned.
C19_StatusOfOutcome ==
    resp # NoResp =>
        /\ resp.err = Nil
              => /\ reply.status = IF resp.op = "Logout" THEN StatusNoContent ELSE StatusOK
                 /\ reply.access = resp.access /\ reply.refresh = resp.refresh
                 /\ reply.error = ""
        /\ resp.err \in {ErrInvalidCredentials, ErrInvalidRefreshToken}
              => reply.status = StatusUnauthorized
        /\ resp.err \notin {Nil, ErrInvalidCredentials, ErrInvalidRefreshToken}
              => /\ reply.status = StatusInternalServerError
                 /\ reply.error \in FixedMessages
                 /\ reply.error # resp.err
        /\ resp.err # Nil
              => reply.access = NoToken /\ reply.refresh = NoToken

\* C19, the case: the insert of Login failed in the store, and the handler has
\* answered 500 with its own message.
C19_StoreFailureSeen ==
    /\ resp.op = "Login"
    /\ resp.err = ErrCreateFailed
    /\ reply = ErrorJSON(StatusInternalServerError, "could not login")

----------------------------------------------------------------------------
\* The token codec.

\* C20: the codec round-trips.  For every subject, role, session id, secret and
\* positive TTL, an access token parsed under the secret it was issued with,
\* before its expiry (the date it carries: the time of issue plus the TTL, in
\* whole seconds), gives claims with the same subject and role, and a refresh
\* token parsed likewise gives claims with the same subject and session id.
C20_RoundTrip ==
    (/\ codec.at = "parsed"
     /\ codec.key = codec.secret
     /\ codec.parsedAt < codec.expiresAt)
        => /\ codec.err = Nil
           /\ codec.claims.Subject = codec.subject
           /\ codec.kind = "access" => codec.claims.Role = codec.role
           /\ codec.kind = "refresh" => codec.claims.ID = codec.jti

\* C20, the case: a refresh token with a session id was parsed, some time
\* after its issue and before its expiry, under its secret.
C20_RefreshRoundTripSeen ==
    /\ codec.at = "parsed"
    /\ codec.kind = "refresh"
    /\ codec.key = codec.secret
    /\ codec.issuedAt < codec.parsedAt
    /\ codec.parsedAt < codec.expiresAt
    /\ NewNumericDate(codec.issuedAt) < codec.issuedAt
    /\ codec.err = Nil
    /\ codec.claims.ID = Uuid(1)
    /\ codec.claims.Subject = Itoa(12)

\* C21: ParseAccessToken and ParseRefreshToken return an error and no claims
\* for every token signed with a secret other than the one the parser is given,
\* for every token whose expires-at is earlier than the time of the parse, and
\* for every token whose signing method is not of the HMAC family.
C21_BadTokenIsRejected ==
    (/\ codec.at = "parsed"
     /\ \/ codec.key # codec.secret
        \/ codec.expiresAt < codec.parsedAt
        \/ codec.token[1].alg \notin HmacMethods)
        => /\ codec.err # Nil
           /\ codec.claims = IF codec.kind = "access" THEN NoAccessClaims
                             ELSE NoRefreshClaims

\* C21, the case: a token with no signature ("none"), built without any key and
\* not expired, was parsed and turned down for its method.
C21_UnsignedTokenSeen ==
    /\ codec.at = "parsed"
    /\ codec.token[1].alg = "none"
    /\ codec.token[3] = Empty
    /\ codec.parsedAt < codec.expiresAt
    /\ codec.err = ErrUnexpectedMethod
    /\ codec.claims \in {NoAccessClaims, NoRefreshClaims}

----------------------------------------------------------------------------
\* The secrets.

\* The token tok is a signed refresh token that verifies under the key secret.
SignedUnder(tok, secret) ==
    /\ Len(tok) = 3
    /\ ParseRefreshToken(tok, secret).err = Nil

\* C22: access and refresh credentials are signed with two distinct secrets of
\* the engine.  A token that Refresh or Logout accepts as a refresh credential
\* verifies under a secret of the engine that is not the one its access tokens
\* are signed with, so that the access secret alone forges no refresh
\* credential.
C22_SecretSeparation ==
    [][\A p \in Procs, tok \in Presentable :
          /\ (RefreshRead(p, tok) /\ pc'[p] = "RefreshCheck")
                => \E secret \in EngineSecrets \ {JwtSecret} : SignedUnder(tok, secret)
          /\ (Logout(p, tok) /\ resp'.err = Nil)
                => \E secret \in EngineSecrets \ {JwtSecret} : SignedUnder(tok, secret)]_vars

----------------------------------------------------------------------------
\* The protected routes.

\* The spellings of the scheme name: HTTP takes it in any letter case.
BearerSpellings == {Bearer, <<"b", "e", "a", "r", "e", "r">>}

\* The header is the scheme Bearer and one token, with whitespace between.
IsBearer(header) ==
    \E scheme \in BearerSpellings :
        /\ Len(Fields(header)) = 2
        /\ Fields(header)[1] = scheme

\* The token of such a header.
BearerToken(header) == Fields(header)[2]

\* The token is an access credential in force: signed under the access secret
\* by a method of the HMAC family, issued and not yet expired.
InForce(tok) ==
    /\ tok[1].alg \in HmacMethods
    /\ tok[3] = Hmac(tok[1].alg, JwtSecret, <<tok[1], tok[2]>>)
    /\ "exp" \in DOMAIN tok[2] => now < tok[2]["exp"]
    /\ "iat" \in DOMAIN tok[2] => tok[2]["iat"] <= now

\* The subject of the token is a number in decimal digits.
Numeric(tok) ==
    /\ "sub" \in DOMAIN tok[2]
    /\ tok[2]["sub"] # <<>>
    /\ \A i \in 1 .. Len(tok[2]["sub"]) : tok[2]["sub"][i] \in 0 .. 9

\* The request was aborted with this status: no handler after the middleware
\* runs, and none has run.
Aborted(c, status) ==
    /\ c.at = "done"
    /\ c.status = status
    /\ ~c.ran

\* C23: the access middleware lets a request through to the handler, with the
\* account attached, exactly when the header is Bearer and a token, the token
\* is an access credential in force under the access secret, its subject is a
\* number, and that number is the id of an account that is not deleted; else
\* it aborts the request, with 500 when the store fails and 401 otherwise, and
\* the handler does not run.  Nothing of this reads the session store.
C23_MiddlewareDecision ==
    [][/\ AuthParse
             => IF /\ IsBearer(ctx.header)
                   /\ InForce(BearerToken(ctx.header))
                   /\ Numeric(BearerToken(ctx.header))
                THEN /\ ctx'.at = "load"
                     /\ ctx'.userID = Digits(BearerToken(ctx.header)[2]["sub"])
                     /\ ctx'.status = 0
                ELSE Aborted(ctx', StatusUnauthorized) /\ ~ctx'.exists
       /\ \A dbUp \in BOOLEAN :
             AuthLoad(dbUp)
                => IF dbUp /\ ctx.userID \in PersonIDs /\ ~persons[ctx.userID].Deleted
                   THEN /\ ctx'.at = "run"
                        /\ ctx'.chain = Tail(ctx.chain)
                        /\ ctx'.exists
                        /\ ctx'.user = persons[ctx.userID]
                        /\ ctx'.status = 0
                   ELSE /\ Aborted(ctx', IF dbUp THEN StatusUnauthorized
                                         ELSE StatusInternalServerError)
                        /\ ~ctx'.exists
       /\ (Handle /\ AuthMw \in {ctx.route[i] : i \in 1 .. Len(ctx.route)})
             => ctx.exists /\ ctx'.ran
       /\ Handle => ctx.status = 0
       /\ (ctx'.ran /\ ~ctx.ran) => Handle]_vars

\* C23, the case: after the Logout of its session, with no session row left
\* in the store, a request with the access token of the Login reached the
\* handler with the account attached.
C23_AcceptedAfterLogoutSeen ==
    /\ hist.loggedOut # {}
    /\ records = {}
    /\ ctx.at = "done"
    /\ ctx.ran
    /\ ctx.held # NoToken
    /\ ctx.header = <<Bearer, Space, ctx.held>>
    /\ ctx.exists
    /\ \E tok \in hist.loggedOut : ctx.user.ID = hist.owner[tok]

\* The role gate of the route, if it has one.
Gates(route) == {route[i] : i \in {j \in 1 .. Len(route) : route[j].mw = "role"}}

\* C24: the role gate works on what the identity middleware attached, over
\* the roles admin and user.  A request passes the gate only with an account
\* attached whose role is the required one; with no account attached it is
\* aborted with 401, with an account of another role with 403; and a handler
\* behind a gate runs only for an attached account of the required role.
C24_RoleGate ==
    /\ [](\A id \in PersonIDs : persons[id].Role \in {Admin, User})
    /\ [][RoleGate
             => IF ~ctx.exists THEN Aborted(ctx', StatusUnauthorized)
                ELSE IF ctx.user.Role # Head(ctx.chain).required
                THEN Aborted(ctx', StatusForbidden)
                ELSE /\ ctx'.at = "run"
                     /\ ctx'.chain = Tail(ctx.chain)
                     /\ ctx'.status = 0]_vars
    /\ [](ctx.ran => \A gate \in Gates(ctx.route) :
                        /\ ctx.exists
                        /\ ctx.user.Role = gate.required)

\* C24, the case: a request with the access token of the account with the
\* role user was turned away with 403 at the admin gate.
C24_ForbiddenSeen ==
    /\ ctx.at = "done"
    /\ ctx.status = StatusForbidden
    /\ ctx.route = <<AuthMw, RoleMw(Admin)>>
    /\ ctx.exists
    /\ ctx.user.Role = User
    /\ ~ctx.ran

----------------------------------------------------------------------------
\* The deletes of the session store.

\* The rows a delete matches: those the call names whose owner is not
\* soft-deleted.
Matched(op, arg) ==
    {r \in records :
        /\ ~persons[r.PersonID].Deleted
        /\ CASE op = "Delete" -> r.ID = arg
             [] op = "DeleteByToken" -> r.RefreshToken = arg
             [] op = "DeleteByPersonID" -> r.PersonID = arg}

\* The error with which each delete reports that it found nothing.
NotFound(op) ==
    CASE op = "Delete" -> ErrRecordNotFoundByGivenID
      [] op = "DeleteByToken" -> ErrRecordNotFoundByGivenToken
      [] op = "DeleteByPersonID" -> ErrRecordNotFoundByGivenPersonID

\* What the delete op(arg) owes its caller, res being what it returns.
DeleteContract(op, arg) ==
    /\ resp'.err = NotFound(op) <=> Matched(op, arg) = {}
    /\ Matched(op, arg) = {} => records' = records
    /\ Matched(op, arg) # {}
          => /\ resp'.err = Nil
             /\ records' = records \ Matched(op, arg)
             /\ Matched(op, arg)' = {}

\* C25: Delete(id), DeleteByToken(hash) and DeleteByPersonID(owner) report
\* their NotFound error exactly when no row matched, and then leave the store
\* as it was; a delete that matched rows removes them and succeeds, and the
\* same call made again reports NotFound.
C25_DeletesReportNotFound ==
    [][/\ \A id \in 1 .. MaxRows :
             CallDelete(id)
                => /\ DeleteContract("Delete", id)
                   /\ resp'.err = Nil => Delete(id)'.err = NotFound("Delete")
       /\ \A n \in 1 .. MaxRows :
             CallDeleteByToken(Sha256(Uuid(n)))
                => /\ DeleteContract("DeleteByToken", Sha256(Uuid(n)))
                   /\ resp'.err = Nil
                         => DeleteByToken(Sha256(Uuid(n)))'.err = NotFound("DeleteByToken")
       /\ \A personID \in PersonIDs :
             CallDeleteByPersonID(personID)
                => /\ DeleteContract("DeleteByPersonID", personID)
                   /\ resp'.err = Nil
                         => DeleteByPersonID(personID)'.err
                               = NotFound("DeleteByPersonID")]_vars

\* C25, the case: DeleteByPersonID has just removed the sessions of an account
\* in bulk, the other account keeps its own, and the same call would now
\* report that it found nothing.
C25_BulkDeleteSeen ==
    /\ resp.op = "DeleteByPersonID"
    /\ resp.err = Nil
    /\ Cardinality(records) = 1
    /\ \A r \in records : r.PersonID # resp.arg
    /\ DeleteByPersonID(resp.arg).err = ErrRecordNotFoundByGivenPersonID

----------------------------------------------------------------------------
\* Rotate.

\* C26: Rotate is atomic.  Its check that the old hash resolves to a session
\* with an owner that is not deleted and its overwrite of that row are one
\* step for every other operation: when the overwrite is made, of a row that
\* is in the store, the old hash resolves to that row still, as it did at the
\* check.
C26_RotateIsAtomic ==
    [][\A p \in Procs :
          (/\ pc[p] = "RotateSave"
           /\ \E r \in records : r.ID = loc[p].rec.ID
           /\ RotateSave(p))
             => ReadByToken(Sha256(loc[p].tok)) = [err |-> Nil, rec |-> loc[p].rec]]_vars

\* C27: the hashed session identifier is unique across the session rows that
\* are not deleted: no sequence of Login, Refresh, Logout and account removal,
\* whatever secrets are generated, leaves two rows with the same hash.
C27_HashIsUnique ==
    \A r, q \in records : r.RefreshToken = q.RefreshToken => r = q

\* C27, the case: with two sessions in the store, a Refresh of one of them
\* generated the secret of the other, and its Rotate was refused.
C27_RefusedRotateSeen ==
    /\ resp.op = "Refresh"
    /\ resp.err = ErrLoginFailed
    /\ Cardinality(records) = 2
    /\ NobodyDeleted
    /\ \E r \in records : r.RefreshToken = Sha256(resp.arg)

----------------------------------------------------------------------------
\* Another row than the one with this id holds the email (id 0: any row).
Held(email, id) ==
    \E i \in DOMAIN persons : i # id /\ persons[i].Email = email

----------------------------------------------------------------------------
\* The process has a configuration to run on.
Usable == cfg.at \in {"loaded", "serving"}

\* C29: no usable configuration has a short secret.  Whenever LoadConfig has
\* returned a configuration, its access secret and its refresh secret are the
\* ones of the environment and have 32 bytes or more; with a shorter one the
\* start is aborted; and no step after the load changes a secret.
C29_SecretsAreLongEnough ==
    /\ [](Usable => /\ Len(cfg.Token.AccessTokenSecret) >= MinSecretLength
                    /\ Len(cfg.Token.RefreshTokenSecret) >= MinSecretLength
                    /\ cfg.Token.AccessTokenSecret = cfg.env.ACCESS_TOKEN_SECRET
                    /\ cfg.Token.RefreshTokenSecret = cfg.env.REFRESH_TOKEN_SECRET)
    /\ [][/\ (/\ Start
              /\ \/ Len(cfg.env.ACCESS_TOKEN_SECRET) < MinSecretLength
                 \/ Len(cfg.env.REFRESH_TOKEN_SECRET) < MinSecretLength)
                => cfg'.at \in {"failed", "panicked"}
          /\ Usable => cfg'.Token = cfg.Token]_vars

\* The start was aborted for the refresh secret alone, one byte short.
C29_ShortRefreshSecretSeen ==
    /\ cfg.at = "panicked"
    /\ Len(cfg.env.ACCESS_TOKEN_SECRET) >= MinSecretLength
    /\ Len(cfg.env.REFRESH_TOKEN_SECRET) = MinSecretLength - 1

----------------------------------------------------------------------------
\* C30: the session row is the authority on expiry.  No Rotate of a Refresh
\* commits with success on a row whose stored expiry is earlier than the time
\* of the commit.
C30_NoRotateOfExpiredRow ==
    [][\A p \in Procs :
          (RotateSave(p) /\ resp'.err = Nil)
             => \A r \in records : r.ID = loc[p].rec.ID => ~(now > r.ExpiresAt)]_vars

----------------------------------------------------------------------------
\* C31: no Refresh succeeds for a deleted owner.  When the owner of the session
\* is soft-deleted by the time the Rotate of a Refresh commits, the Refresh
\* returns neither token and no session row is changed.
C31_NoRefreshForDeletedOwner ==
    [][\A p \in Procs :
          (/\ pc[p] = "RotateSave"
           /\ persons[loc[p].rec.PersonID].Deleted
           /\ RotateSave(p))
             => /\ resp'.access = NoToken
                /\ resp'.refresh = NoToken
                /\ records' = records]_vars

----------------------------------------------------------------------------
\* C32: the frame of Rotate.  A Rotate that commits with success replaces, in
\* the one row that holds the hash of the token presented, the hash and the
\* expiry, and changes nothing else of the table; and every stored session
\* of a token handed out belongs to the account whose Login began its chain.
C32_RotateChangesOneRow ==
    /\ [][\A p \in Procs :
             (/\ pc[p] = "RotateSave"
              /\ RotateSave(p)
              /\ resp'.err = Nil)
                => \E old \in records :
                      /\ old.RefreshToken = Sha256(loc[p].tok)
                      /\ records' = (records \ {old}) \cup
                            {[old EXCEPT !.RefreshToken = Sha256(loc[p].rawNew),
                                         !.ExpiresAt = loc[p].newExpiry]}]_vars
    /\ [](\A r \in records, tok \in hist.returned :
              r.RefreshToken = Sha256(tok) => r.PersonID = hist.owner[tok])

----------------------------------------------------------------------------
\* The step removes no row but rows with the hash of tok, and what the store
\* answers for every other token is what it answered before.
OthersUntouched(tok) ==
    /\ records' \subseteq records
    /\ \A r \in records \ records' : r.RefreshToken = Sha256(tok)
    /\ \A u \in Tokens \ {tok} : ReadByToken(Sha256(u))' = ReadByToken(Sha256(u))

\* C33: sessions are independent.  A Login that succeeds adds one row and
\* leaves every row there was; a Logout, and the delete of an expired session
\* in Refresh, remove only the row of their token; after each of them the
\* store answers for the token of every other session as before.
C33_SessionsAreIndependent ==
    [][/\ \A p \in Procs :
             (pc[p] = "LoginCreate" /\ LoginCreate(p) /\ resp'.err = Nil)
                => /\ records \subseteq records'
                   /\ Cardinality(records' \ records) = 1
                   /\ \A u \in Tokens \ {resp'.refresh} :
                         ReadByToken(Sha256(u))' = ReadByToken(Sha256(u))
       /\ \A p \in Procs, tok \in Presentable :
             Logout(p, tok) => OthersUntouched(tok)
       /\ \A p \in Procs :
             (/\ pc[p] = "RefreshCheck"
              /\ now > loc[p].rec.ExpiresAt
              /\ RefreshCheck(p))
                => OthersUntouched(loc[p].tok)]_vars

\* A Logout has removed one of two sessions of an account and the other one is
\* still in the store.
C33_SiblingSessionSeen ==
    /\ resp.op = "Logout"
    /\ resp.err = Nil
    /\ \E r \in records : r.PersonID = hist.owner[resp.arg]

----------------------------------------------------------------------------
\* C34: the last-seen update writes the last-seen time only.  The Save of
\* UpdateLastSeen leaves the email, the password hash, the role and the
\* deletion state of every account as the store holds them when it runs.
C34_LastSeenWritesLastSeenOnly ==
    [][\A t \in tasks :
          LastSeenSave(t)
             => \A id \in DOMAIN persons :
                   persons'[id] = [persons[id] EXCEPT !.LastSeen = persons'[id].LastSeen]]_vars

----------------------------------------------------------------------------
\* C35: a password that CheckPassword accepts passes the binding of the Login
\* and CreatePerson endpoints: a request that carries it is not answered with
\* 400.
C35_AcceptedPasswordsBind ==
    [][\A password \in Words :
          CheckPassword(password) = Nil
             => /\ \A p \in Procs, email \in Emails :
                      PostLogin(p, email, password)
                         => reply'.status # StatusBadRequest
                /\ \A email \in Addresses :
                      PostPerson(email, password)
                         => reply'.status # StatusBadRequest]_vars

----------------------------------------------------------------------------
\* The accounts through all that is done to them short of deletion: accounts
\* are created and their email and password updated, one call of the person
\* service at a time, beside the calls of Login, Refresh and Logout and the
\* last-seen goroutine of a Login.  The clock stands still.

\* The passwords a Login is tried with.
Credentials == Passwords \cup StrongPasswords

\* The address no account begins with: the one accounts are created with and
\* renamed to.
Fresh == Addresses \ Emails

NextRoles ==
    \/ \E email \in Fresh, password \in StrongPasswords :
           NoCall /\ CreatePerson(email, password)
    \/ \E p \in Procs, id \in 1 .. MaxPersons, email \in Fresh :
           NoCall /\ UpdateEmailRead(p, id, email)
    \/ \E p \in Procs : UpdateEmailSave(p)
    \/ \E p \in Procs, id \in 1 .. MaxPersons, password \in StrongPasswords :
           NoCall /\ UpdatePasswordRead(p, id, password)
    \/ \E p \in Procs : UpdatePasswordSave(p)
    \/ \E p \in Procs, email \in Addresses, password \in Credentials :
           LoginRead(p, email, password)
    \/ \E p \in Procs : LoginCreate(p)
    \/ \E t \in tasks : LastSeenRead(t)
    \/ \E t \in tasks : LastSeenSave(t)
    \/ \E p \in Procs, tok \in Presentable : RefreshRead(p, tok)
    \/ \E p \in Procs : RefreshCheck(p)
    \/ \E p \in Procs : RotateRead(p)
    \/ \E p \in Procs : RotateSave(p)
    \/ \E p \in Procs, tok \in Presentable : Logout(p, tok)
    \/ Deliver

SpecRoles == Init /\ [][NextRoles]_vars

\* The role an account has when it comes to exist: the role of its row at the
\* start, and user for an account CreatePerson makes.
FirstRole(id) == IF id \in PersonIDs THEN InitPersons[id].Role ELSE User

\* C36: the id and the role of an account never change.  CreatePerson makes an
\* account with the role user and the id of its row; no step of UpdateEmail,
\* UpdatePassword, UpdateLastSeen, Login, Refresh or Logout changes the id or
\* the role of an account; and every access token a Login or a Refresh
\* returns carries the id of the account of its session as subject and the
\* role that account began with.
C36_IdAndRoleAreFixed ==
    /\ [][/\ \A id \in DOMAIN persons :
                /\ id \in DOMAIN persons'
                /\ persons'[id].ID = persons[id].ID
                /\ persons'[id].Role = persons[id].Role
          /\ \A created \in DOMAIN persons' \ DOMAIN persons :
                /\ persons'[created].ID = created
                /\ persons'[created].Role = User]_vars
    /\ [](resp.access # NoToken
            => LET id == hist.owner[resp.refresh]
                   parsed == ParseToken(resp.access, JwtSecret)
               IN /\ parsed.err = Nil
                  /\ parsed.claims.Subject = Itoa(id)
                  /\ parsed.claims.Role = FirstRole(id))

\* A Refresh returns credentials for the administrator after the account was
\* given another email and another password.
C36_RenamedAdminRefreshed ==
    /\ resp.op = "Refresh"
    /\ resp.err = Nil
    /\ resp.access # NoToken
    /\ \E id \in PersonIDs :
          /\ hist.owner[resp.refresh] = id
          /\ InitPersons[id].Role = Admin
          /\ persons[id].Email \in Fresh
          /\ persons[id].Password # InitPersons[id].Password

====
